---- MODULE Spec2Model ----
(***************************************************************************)
(* oh-my-navigation: the recency tracker (utils/recency-tracker.ts), the  *)
(* stale-while-revalidate symbol search session                            *)
(* (commands/search-symbols.ts) and the scan of findSymbols                *)
(* (symbolSearch.ts).                                                      *)
(*                                                                         *)
(* Time is counted in whole hours.  Recency scores are kept in tenths      *)
(* (the code rounds to one decimal); the scores carried by pick-list items *)
(* are exact rationals [num, den], den = 0 standing for NaN / undefined.   *)
(* The recency map is an insertion-ordered sequence of runs: a run with    *)
(* n = 1 is one entry, a run with n > 1 stands for n consecutive entries   *)
(* of keys that are never accessed again, all with the same lastAccessed.  *)
(***************************************************************************)
EXTENDS Integers, Sequences, FiniteSets, TLC

VARIABLES now, globalState, entries, loaded, symbolCache, session, fzfScore,
          runs, lastScore, instance, find, extracted, store, thrown, preview,
          reads, calls, config, lastCommand

vars ==
  <<now, globalState, entries, loaded, symbolCache, session, fzfScore, runs,
    lastScore, instance, find, extracted, store, thrown, preview, reads,
    calls, config, lastCommand>>

(***************************************************************************)
(* Bounds                                                                  *)
(***************************************************************************)
MaxNow == 3

Over == 1

MaxRuns == 2

MaxCalls == 2

MaxInstances == 2

MaxResults == 3

MaxCount == 51

MaxAge == 170

MaxSkew == 2
\* lines the search tool prints during one scan
MaxLines == 3
\* capture groups of a pattern
MaxGroups == 3
\* positions the cursor of the original editor may be at
MaxSel == 2

\* lines an invocation of the search tool prints in a session under fairness
MaxLiveLines == 2

\* reads of the store counted up to this many
MaxReads == 2

(***************************************************************************)
(* Program constants of recency-tracker.ts                                 *)
(***************************************************************************)
MAX_ENTRIES == 1000

FREQUENCY_CAP == 50

AGE_CAP == 48

\* round(RECENCY_WEIGHT * DECAY_FACTOR^h * MAX_SCORE * 10) for h = 0..48,
\* as the double arithmetic of getScore yields it
DecayTenths ==
  <<700, 630, 567, 510, 459, 413, 372, 335, 301, 271, 244, 220, 198, 178,
    160, 144, 130, 117, 105, 95, 85, 77, 69, 62, 56, 50, 45, 41, 37, 33,
    30, 27, 24, 22, 19, 18, 16, 14, 13, 11, 10, 9, 8, 8, 7, 6, 5, 5, 4>>

\* the same for h = -1..-8: Date.now() reads earlier than lastAccessed
\* (Math.min(ageInHours, 48) has no lower clamp)
GrowthTenths == <<778, 864, 960, 1067, 1185, 1317, 1464, 1626>>

Min(a, b) == IF a < b THEN a ELSE b

Max(a, b) == IF a > b THEN a ELSE b

(***************************************************************************)
(* Files, symbol names and recency keys                                    *)
(***************************************************************************)
File1 == <<"f1">>

File2 == <<"f2">>

Files == {File1, File2}

Labels == {"A", "B"}

\* `${filePath}#${symbolName}`, or filePath alone without a symbol name
RecencyKey(filePath, symbolName) ==
  IF symbolName # "" THEN filePath \o <<"#", symbolName>> ELSE filePath

Entry(filePath, symbolName, t, c) ==
  [key |-> RecencyKey(filePath, symbolName), path |-> filePath,
   lastAccessed |-> t, accessCount |-> c, n |-> 1]

\* n entries of other keys, accessed at t, once each
Filler(id, t, n) ==
  [key |-> <<"other", id>>, path |-> <<"other">>,
   lastAccessed |-> t, accessCount |-> 1, n |-> n]

RECURSIVE MapSize(_)
MapSize(m) == IF m = <<>> THEN 0 ELSE Head(m).n + MapSize(Tail(m))

HasKey(m, key) == \E i \in 1..Len(m) : m[i].key = key

IndexOf(m, key) == CHOOSE i \in 1..Len(m) : m[i].key = key

(***************************************************************************)
(* RecencyTracker                                                          *)
(***************************************************************************)
\* a field that an entry of the stored object does not have
Undefined == -1

\* NaN as an access count, and as a score in tenths
NotANumber == -2

\* a stored entry {} under the key of a symbol
Malformed(filePath, symbolName) ==
  [key |-> RecencyKey(filePath, symbolName), path |-> filePath,
   lastAccessed |-> Undefined, accessCount |-> Undefined, n |-> 1]

\* a store whose calls succeed; shape is what globalState.get returns for
\* "omn.recencyEntries": the object kept in globalState ("map"), null or a
\* number
HealthyStore == [shape |-> "map", rejects |-> "none"]

\* Object.entries(storedEntries); a number has no entries
StoredEntries == IF store.shape = "map" THEN globalState ELSE <<>>

\* load() throws: the store rejects the read, or Object.entries(null)
LoadThrows == ~loaded /\ (store.rejects = "get" \/ store.shape = "null")

\* load(): the persisted map is read once
LoadedEntries == IF loaded THEN entries ELSE StoredEntries

\* entry.accessCount++ ; undefined and NaN become NaN
Increment(accessCount) ==
  IF accessCount < 0 THEN NotANumber ELSE accessCount + 1

\* the count of an existing entry started again at 1
Upsert_CountReset(m, filePath, symbolName, t) ==
  LET key == RecencyKey(filePath, symbolName) IN
  IF HasKey(m, key)
  THEN [m EXCEPT ![IndexOf(m, key)].lastAccessed = t,
                 ![IndexOf(m, key)].accessCount = 1]
  ELSE Append(m, Entry(filePath, symbolName, t, 1))

\* recordAccess, lines 64-75: upsert of the entry
Upsert(m, filePath, symbolName, t) ==
  LET key == RecencyKey(filePath, symbolName) IN
  IF HasKey(m, key)
  THEN [m EXCEPT ![IndexOf(m, key)].lastAccessed = t,
                 ![IndexOf(m, key)].accessCount = Increment(@)]
  ELSE Append(m, Entry(filePath, symbolName, t, 1))

\* entries.slice(0, entries.length - MAX_ENTRIES): how many are removed
SliceCount(len) ==
  LET e == len - MAX_ENTRIES IN
  IF e >= 0 THEN Min(e, len) ELSE Max(len + e, 0)

\* the sort comparing b - a: newest first
SortRank_NewestFirst(m, i) ==
  Cardinality({j \in 1..Len(m) :
                 \/ m[j].lastAccessed > m[i].lastAccessed
                 \/ m[j].lastAccessed = m[i].lastAccessed /\ j < i})

\* position of run i in the stable sort by lastAccessed, oldest first
SortRank(m, i) ==
  Cardinality({j \in 1..Len(m) :
                 \/ m[j].lastAccessed < m[i].lastAccessed
                 \/ m[j].lastAccessed = m[i].lastAccessed /\ j < i})

\* entries that precede run i in that order
Before(m, i) ==
  LET S == {j \in 1..Len(m) : SortRank(m, j) < SortRank(m, i)} IN
  LET RECURSIVE Sum(_)
      Sum(T) == IF T = {} THEN 0
                ELSE LET j == CHOOSE x \in T : TRUE IN m[j].n + Sum(T \ {j})
  IN Sum(S)

RECURSIVE DropEmpty(_)
DropEmpty(m) ==
  IF m = <<>> THEN <<>>
  ELSE IF Head(m).n = 0 THEN DropEmpty(Tail(m))
       ELSE <<Head(m)>> \o DropEmpty(Tail(m))

\* prune(): delete the first SliceCount entries of the sorted order
Prune(m) ==
  LET k == SliceCount(MapSize(m)) IN
  DropEmpty([i \in 1..Len(m) |->
     [m[i] EXCEPT !.n = @ - Min(@, Max(k - Before(m, i), 0))]])

\* the size test off by one
PruneIfNeeded_OffByOne(m) ==
  IF MapSize(m) > MAX_ENTRIES + 1 THEN Prune(m) ELSE m

PruneIfNeeded(m) == IF MapSize(m) > MAX_ENTRIES THEN Prune(m) ELSE m

\* the in-memory map when recordAccess reaches save()
RecordAccessEntries(m, filePath, symbolName, t) ==
  PruneIfNeeded(Upsert(m, filePath, symbolName, t))

\* lastScore before any getScore call has returned
NoScore == [score |-> -1, lastAccessed |-> -1, accessCount |-> -1]

\* the score of a key without an entry
ZeroScore == [score |-> 0, lastAccessed |-> 0, accessCount |-> 0]

\* the age ignored
RecencyTenths_Flat(ageInHours) == DecayTenths[1]

\* RECENCY_WEIGHT * recencyScore, in tenths
RecencyTenths(ageInHours) ==
  IF ageInHours >= 0 THEN DecayTenths[Min(ageInHours, AGE_CAP) + 1]
  ELSE GrowthTenths[0 - ageInHours]

\* the access count not capped
FrequencyTenths_Uncapped(accessCount) == 6 * accessCount

\* (1 - RECENCY_WEIGHT) * frequencyScore, in tenths
FrequencyTenths(accessCount) == 6 * Min(accessCount, FREQUENCY_CAP)

\* an absent key scored as an entry that was never accessed
GetScore_AbsentScored(m, filePath, symbolName, t) ==
  LET key == RecencyKey(filePath, symbolName) IN
  IF ~HasKey(m, key)
  THEN [score |-> RecencyTenths(t), lastAccessed |-> 0, accessCount |-> 0]
  ELSE LET e == m[IndexOf(m, key)]
           ageInHours == t - e.lastAccessed
       IN [score |-> RecencyTenths(ageInHours)
                       + FrequencyTenths(e.accessCount),
           lastAccessed |-> e.lastAccessed,
           accessCount |-> e.accessCount]

\* getScore; score in tenths, NaN when a field of the entry is no number
GetScore(m, filePath, symbolName, t) ==
  LET key == RecencyKey(filePath, symbolName) IN
  IF ~HasKey(m, key) THEN ZeroScore
  ELSE LET e == m[IndexOf(m, key)]
           ageInHours == t - e.lastAccessed
       IN IF e.lastAccessed < 0 \/ e.accessCount < 0
          THEN [score |-> NotANumber,
                lastAccessed |-> e.lastAccessed,
                accessCount |-> e.accessCount]
          ELSE [score |-> RecencyTenths(ageInHours)
                            + FrequencyTenths(e.accessCount),
                lastAccessed |-> e.lastAccessed,
                accessCount |-> e.accessCount]

(***************************************************************************)
(* Pick-list items and their scores                                        *)
(***************************************************************************)
Rat(num, den) == [num |-> num, den |-> den]

\* 0/0, and the score of an item that has none
NaN == Rat(0, 0)

\* score || 0
OrZero(score) == IF score.den = 0 THEN Rat(0, 1) ELSE score

\* scoreB - scoreA of two numbers, as a sign
RatSign(b, a) ==
  LET l == b.num * a.den
      r == a.num * b.den
  IN IF l > r THEN 1 ELSE IF l < r THEN -1 ELSE 0

Item(label, file, line, score) ==
  [label |-> label, file |-> file, line |-> line, score |-> score]

LoadingItem == Item("Loading symbols...", <<>>, 0, NaN)

\* the empty result shown with the label of the loading item
NoSymbolsItem_Loading == Item("Loading symbols...", <<>>, 0, NaN)

NoSymbolsItem == Item("No symbols found.", <<>>, 0, NaN)

NoItem == Item("", <<>>, 0, NaN)

\* localeCompare on the labels and relative paths of the model
LabelRank(label) == IF label = "A" THEN 1 ELSE IF label = "B" THEN 2 ELSE 0

FileRank(file) == IF file = File1 THEN 1 ELSE IF file = File2 THEN 2 ELSE 0

Sign(x) == IF x > 0 THEN 1 ELSE IF x < 0 THEN -1 ELSE 0

\* the scores compared and nothing else
compareSymbolQuickPickItems_ScoreOnly(a, b) ==
  RatSign(OrZero(b.score), OrZero(a.score))

compareSymbolQuickPickItems(a, b) ==
  LET scoreA == OrZero(a.score)
      scoreB == OrZero(b.score)
  IN IF RatSign(scoreB, scoreA) # 0 THEN RatSign(scoreB, scoreA)
     ELSE IF a.label # b.label
          THEN Sign(LabelRank(a.label) - LabelRank(b.label))
     ELSE IF a.file # b.file
          THEN Sign(FileRank(a.file) - FileRank(b.file))
     ELSE Sign(a.line - b.line)

\* Array.prototype.sort with that comparator (stable)
RECURSIVE InsertItem(_, _)
InsertItem(sorted, x) ==
  IF sorted = <<>> THEN <<x>>
  ELSE IF compareSymbolQuickPickItems(sorted[Len(sorted)], x) <= 0
       THEN Append(sorted, x)
       ELSE Append(InsertItem(SubSeq(sorted, 1, Len(sorted) - 1), x),
                   sorted[Len(sorted)])

RECURSIVE SortFrom(_, _)
SortFrom(sorted, rest) ==
  IF rest = <<>> THEN sorted
  ELSE SortFrom(InsertItem(sorted, Head(rest)), Tail(rest))

SortItems(list) == SortFrom(<<>>, list)

\* slice(0, DISPLAY_LIMIT) and the limit option of the fuzzy index
DISPLAY_LIMIT == 20

Take(list, k) == SubSeq(list, 1, Min(Len(list), k))

RecencyScore(m, file, label, t) ==
  LET score == GetScore(m, file, label, t).score IN
  IF score = NotANumber THEN NaN ELSE Rat(score, 10)

\* the cached items with the scores stored in the cache, sorted
RescoreCached_StoredScores(list, m, t) == SortItems(list)

\* the cached items with their current recency scores, sorted
RescoreCached(list, m, t) ==
  SortItems([i \in 1..Len(list) |->
     [list[i] EXCEPT !.score = RecencyScore(m, list[i].file, list[i].label, t)]])

\* the symbols of a scan as scored items, in scan order
FreshItems_Unsorted(symbols, m, t) ==
  [i \in 1..Len(symbols) |->
     Item(symbols[i].symbol, symbols[i].file, symbols[i].line,
          RecencyScore(m, symbols[i].file, symbols[i].symbol, t))]

\* the symbols of a scan as scored, sorted items
FreshItems(symbols, m, t) ==
  SortItems([i \in 1..Len(symbols) |->
     Item(symbols[i].symbol, symbols[i].file, symbols[i].line,
          RecencyScore(m, symbols[i].file, symbols[i].symbol, t))])

(***************************************************************************)
(* The fuzzy index: fzf.find(query) over a corpus of items                 *)
(***************************************************************************)
Queries == {"", "q"}

RECURSIVE Matches(_, _, _)
Matches(corpus, query, score) ==
  IF corpus = <<>> THEN <<>>
  ELSE LET x == Head(corpus)
           rest == Matches(Tail(corpus), query, score)
       IN IF score[x.label][query] > 0
          THEN <<[item |-> x, score |-> score[x.label][query]]>> \o rest
          ELSE rest

\* an empty query returns the first items of the corpus, each with score 0
FzfFind(corpus, query, score) ==
  IF query = "" \/ corpus = <<>>
  THEN [i \in 1..Min(Len(corpus), DISPLAY_LIMIT) |->
          [item |-> corpus[i], score |-> 0]]
  ELSE Take(Matches(corpus, query, score), DISPLAY_LIMIT)

RECURSIVE MaxOfScores(_)
MaxOfScores(results) ==
  IF Len(results) = 1 THEN results[1].score
  ELSE Max(results[1].score, MaxOfScores(Tail(results)))

\* the two weights exchanged
CombinedScore_SwappedWeights(score, maxFzfScore, itemScore) ==
  LET recencyScore == OrZero(itemScore) IN
  IF maxFzfScore = 0 THEN NaN
  ELSE Rat(200 * score * recencyScore.den + 3 * recencyScore.num * maxFzfScore,
           5 * maxFzfScore * recencyScore.den)

\* normalizedFzfScore * 0.6 + recencyScore * 0.4, with
\* normalizedFzfScore = (score / maxFzfScore) * 100
CombinedScore(score, maxFzfScore, itemScore) ==
  LET recencyScore == OrZero(itemScore) IN
  IF maxFzfScore = 0 THEN NaN
  ELSE Rat(300 * score * recencyScore.den + 2 * recencyScore.num * maxFzfScore,
           5 * maxFzfScore * recencyScore.den)

\* the items a keystroke assigns to the pick list
FilteredItems(corpus, query, score) ==
  LET results == FzfFind(corpus, query, score) IN
  IF results = <<>> THEN <<>>
  ELSE LET maxFzfScore == MaxOfScores(results) IN
       SortItems([i \in 1..Len(results) |->
          [results[i].item EXCEPT
             !.score = CombinedScore(results[i].score, maxFzfScore, @)]])

(***************************************************************************)
(* The editor setting and the stored last command                          *)
(***************************************************************************)
\* config holds the setting workbench.editor.enablePreviewFromQuickOpen and
\* the PreviewManager of each session as far as the setting is concerned:
\* session is "none" before the command runs, "starting" while it awaits
\* init(), "open" until the pick list is hidden, then "ended"; init and
\* dispose are where a call of init() and of dispose() are; before is the
\* setting as it was before any session
Managers == {1, 2}

IdleManager ==
  [session |-> "none", initialized |-> FALSE, originalPreviewSetting |-> FALSE,
   init |-> "none", dispose |-> "none"]

IdleConfig ==
  [setting |-> FALSE, before |-> FALSE,
   managers |-> [m \in Managers |-> IdleManager]]

\* lastCommand holds whether the command was registered with a
\* LastCommandTracker, the CommandData under "olly.lastCommand", and the
\* executeCommand call the last resume made
NoCommand == [commandId |-> "", args |-> <<>>]

Untracked == [tracker |-> FALSE, stored |-> NoCommand, executed |-> NoCommand]

\* `if (lastCommandTracker) lastCommandTracker.setLastCommand(commandId, args)`
SetLastCommand(commandId, args) ==
  IF lastCommand.tracker
  THEN [lastCommand EXCEPT !.stored = [commandId |-> commandId, args |-> args]]
  ELSE lastCommand

(***************************************************************************)
(* Tracker operations, each call running to completion                     *)
(***************************************************************************)
\* load() without its `if (this.loaded) return`
ReadStore_EveryCall == Min(reads + 1, MaxReads)

\* reads counts the calls of globalState.get made by this tracker instance:
\* load() makes one unless the map is already loaded
ReadStore == IF loaded THEN reads ELSE Min(reads + 1, MaxReads)

load ==
  /\ IF LoadThrows
     THEN /\ thrown' = "load"
          /\ UNCHANGED <<entries, loaded>>
     ELSE /\ entries' = LoadedEntries
          /\ loaded' = TRUE
          /\ UNCHANGED thrown
  /\ UNCHANGED <<now, globalState, symbolCache, session, fzfScore, runs>>
  /\ UNCHANGED <<lastScore, instance, find, extracted, store, preview>>
  /\ reads' = ReadStore
  /\ UNCHANGED <<calls, config, lastCommand>>

\* the map saved before it is pruned
recordAccess_SaveBeforePrune(filePath, symbolName) ==
  /\ runs < MaxCalls
  /\ runs' = runs + 1
  /\ entries' = RecordAccessEntries(LoadedEntries, filePath, symbolName, now)
  /\ loaded' = TRUE
  /\ globalState' = Upsert(LoadedEntries, filePath, symbolName, now)
  /\ UNCHANGED <<now, symbolCache, session, fzfScore>>
  /\ UNCHANGED <<lastScore, instance, find, extracted, store, thrown, preview>>
  /\ reads' = ReadStore
  /\ UNCHANGED <<calls, config, lastCommand>>

\* recordAccess; load() or save() may reject, and a save that resolves
\* leaves an object in the store
recordAccess(filePath, symbolName) ==
  /\ runs < MaxCalls
  /\ runs' = runs + 1
  /\ IF LoadThrows
     THEN /\ thrown' = "recordAccess"
          /\ UNCHANGED <<globalState, entries, loaded, store>>
     ELSE /\ entries' =
               RecordAccessEntries(LoadedEntries, filePath, symbolName, now)
          /\ loaded' = TRUE
          /\ IF store.rejects = "update"
             THEN /\ thrown' = "recordAccess"
                  /\ UNCHANGED <<globalState, store>>
             ELSE /\ globalState' = entries'
                  /\ store' = [store EXCEPT !.shape = "map"]
                  /\ UNCHANGED thrown
  /\ UNCHANGED <<now, symbolCache, session, fzfScore>>
  /\ UNCHANGED <<lastScore, instance, find, extracted, preview>>
  /\ reads' = ReadStore
  /\ UNCHANGED <<calls, config, lastCommand>>

\* only the in-memory map cleared
clear_MemoryOnly ==
  /\ entries' = <<>>
  /\ UNCHANGED <<now, globalState, loaded, symbolCache, session, fzfScore,
                 runs>>
  /\ UNCHANGED <<lastScore, instance, find, extracted, store, thrown, preview>>
  /\ UNCHANGED <<reads, calls, config, lastCommand>>

clear ==
  /\ entries' = <<>>
  /\ IF store.rejects = "update"
     THEN /\ thrown' = "clear"
          /\ UNCHANGED <<globalState, store>>
     ELSE /\ globalState' = <<>>
          /\ store' = [store EXCEPT !.shape = "map"]
          /\ UNCHANGED thrown
  /\ UNCHANGED <<now, loaded, symbolCache, session, fzfScore, runs>>
  /\ UNCHANGED <<lastScore, instance, find, extracted, preview>>
  /\ UNCHANGED <<reads, calls, config, lastCommand>>

\* getScore(filePath, symbolName), its return value kept in lastScore
getScore(filePath, symbolName) ==
  /\ lastScore' = GetScore(entries, filePath, symbolName, now)
  /\ UNCHANGED <<now, globalState, entries, loaded, symbolCache, session,
                 fzfScore, runs, instance, find,
                 extracted, store, thrown, preview>>
  /\ UNCHANGED <<reads, calls, config, lastCommand>>

\* getScores([key]): load() is called and not awaited, so a rejection of it
\* does not reach the caller; the key is passed to getScore as a file path
getScores(filePath, symbolName) ==
  /\ entries' = IF LoadThrows THEN entries ELSE LoadedEntries
  /\ loaded' = ~LoadThrows
  /\ reads' = ReadStore
  /\ lastScore' = GetScore(entries', RecencyKey(filePath, symbolName), "", now)
  /\ UNCHANGED <<now, globalState, symbolCache, session, fzfScore, runs,
                 instance, find, extracted, store, thrown, preview, calls,
                 config, lastCommand>>

\* activate(): a new RecencyTracker is constructed over the same store
newTracker ==
  /\ instance < MaxInstances
  /\ instance' = instance + 1
  /\ entries' = <<>>
  /\ loaded' = FALSE
  /\ UNCHANGED <<now, globalState, symbolCache, session, fzfScore, runs,
                 lastScore, find, extracted, store, thrown, preview>>
  /\ reads' = 0
  /\ UNCHANGED <<calls, config, lastCommand>>

\* the wall clock Date.now() reads is set back by an hour
clockSetBack ==
  /\ now > 0
  /\ now' = now - 1
  /\ UNCHANGED <<globalState, entries, loaded, symbolCache, session, fzfScore,
                 runs, lastScore, instance, find, extracted, store,
                 thrown, preview>>
  /\ UNCHANGED <<reads, calls, config, lastCommand>>

Tick ==
  /\ now < MaxNow
  /\ now' = now + 1
  /\ UNCHANGED <<globalState, entries, loaded, symbolCache, session, fzfScore,
               runs>>
  /\ UNCHANGED <<lastScore, instance, find, extracted, store, thrown, preview>>
  /\ UNCHANGED <<reads, calls, config, lastCommand>>

(***************************************************************************)
(* The symbol search session of search-symbols.ts                          *)
(***************************************************************************)
Sessions == {1}

Kinds == {"class"}

SymA == [symbol |-> "A", file |-> File1, line |-> 1]

SymB == [symbol |-> "B", file |-> File1, line |-> 2]

SymA2 == [symbol |-> "A", file |-> File2, line |-> 1]

\* what findSymbols may return
Scans == {<<>>, <<SymA2, SymB, SymA>>}

NoEntry == [present |-> FALSE, list |-> <<>>]

CacheEntry(list) == [present |-> TRUE, list |-> list]

IdleSession ==
  [pc |-> "idle", picked |-> "none", itemsForSearch |-> <<>>, fzf |-> <<>>,
   items |-> <<>>, busy |-> FALSE, value |-> "", bg |-> "none",
   accept |-> "none", selected |-> NoItem]

\* the re-scored and re-sorted list written back into the cache
ServedCache_InPlace(kind, rescored) ==
  [symbolCache EXCEPT ![kind] = IF @.present THEN CacheEntry(rescored) ELSE @]

\* the cache after a cached list was served: the re-scored items are new
\* objects ({...item, score}), so the cached list and its items stay as
\* they were
ServedCache(kind, rescored) == symbolCache

\* the arguments the command stores for itself when it starts
StartArgs(typeArg, searchValue) ==
  (IF typeArg # "" THEN <<typeArg>> ELSE <<>>) \o
  (IF searchValue # "" THEN <<searchValue>> ELSE <<>>)

\* the command without its setLastCommand call, from the chosen kind to the
\* start of backgroundSearch; typeArg and searchValue are "" when not
\* passed, and kind is typeArg or, without one, the kind picked from the
\* menu; it ends at `await recencyTracker.load()` when load() rejects
startSession(s, typeArg, searchValue, kind) ==
  /\ typeArg \in {"", kind}
  /\ session[s].pc = "idle"
  /\ runs < MaxRuns
  /\ runs' = runs + 1
  /\ IF LoadThrows
     THEN /\ session' = [session EXCEPT ![s].pc = "threw",
                                        ![s].picked = kind]
          /\ thrown' = "searchSymbols"
          /\ UNCHANGED <<entries, loaded, symbolCache>>
     ELSE /\ entries' = LoadedEntries
          /\ loaded' = TRUE
          /\ UNCHANGED thrown
          /\ LET fromCache == symbolCache[kind]
                 cachedItemsWithLatestScores ==
                   IF fromCache.present
                   THEN RescoreCached(fromCache.list, entries', now)
                   ELSE <<>>
             IN
             /\ session' = [session EXCEPT ![s] =
                  [IdleSession EXCEPT
                     !.pc = "open",
                     !.picked = kind,
                     !.itemsForSearch = cachedItemsWithLatestScores,
                     !.fzf = cachedItemsWithLatestScores,
                     !.items =
                       IF Len(cachedItemsWithLatestScores) > 0
                       THEN Take(cachedItemsWithLatestScores, DISPLAY_LIMIT)
                       ELSE <<LoadingItem>>,
                     !.busy = TRUE,
                     !.value = searchValue,
                     !.bg = "running"]]
             /\ symbolCache' = ServedCache(kind, cachedItemsWithLatestScores)
  /\ UNCHANGED <<now, globalState, fzfScore>>
  /\ UNCHANGED <<lastScore, instance, find, extracted, store, preview>>
  /\ reads' = ReadStore
  /\ UNCHANGED <<calls, config>>

\* the command omn.searchSymbols called with these arguments
searchSymbolsWith(s, typeArg, searchValue, kind) ==
  /\ startSession(s, typeArg, searchValue, kind)
  /\ lastCommand' =
       SetLastCommand("omn.searchSymbols", StartArgs(typeArg, searchValue))

\* the command run from the palette, and kind picked from the menu
searchSymbols(s, kind) == searchSymbolsWith(s, "", "", kind)

\* the command returns before a kind is chosen
cancelPick(s) ==
  /\ session[s].pc = "idle"
  /\ runs < MaxRuns
  /\ runs' = runs + 1
  /\ session' = [session EXCEPT ![s].pc = "cancelled"]
  /\ UNCHANGED <<now, globalState, entries, loaded, symbolCache, fzfScore>>
  /\ UNCHANGED <<lastScore, instance, find, extracted, store, thrown, preview>>
  /\ lastCommand' = SetLastCommand("omn.searchSymbols", StartArgs("", ""))
  /\ UNCHANGED <<reads, calls, config>>

\* the busy indicator left on when no symbols were found
backgroundSearch_BusyKept(s, symbols) ==
  /\ session[s].bg = "running"
  /\ IF symbols = <<>>
     THEN /\ session' = [session EXCEPT ![s].items = <<NoSymbolsItem>>,
                                        ![s].bg = "done"]
          /\ symbolCache' =
               [symbolCache EXCEPT ![session[s].picked] = CacheEntry(<<>>)]
          /\ UNCHANGED <<entries, loaded>>
     ELSE /\ entries' = LoadedEntries
          /\ loaded' = TRUE
          /\ LET freshItems == FreshItems(symbols, entries', now) IN
             /\ symbolCache' =
                  [symbolCache EXCEPT
                     ![session[s].picked] = CacheEntry(freshItems)]
             /\ session' = [session EXCEPT
                  ![s].itemsForSearch = freshItems,
                  ![s].fzf = freshItems,
                  ![s].items = Take(freshItems, DISPLAY_LIMIT),
                  ![s].busy = FALSE,
                  ![s].bg = "done"]
  /\ UNCHANGED <<now, globalState, fzfScore, runs>>
  /\ UNCHANGED <<lastScore, instance, find, extracted, store, thrown, preview>>
  /\ reads' = IF symbols = <<>> THEN reads ELSE ReadStore
  /\ UNCHANGED <<calls, config, lastCommand>>

\* backgroundSearch, once findSymbols has returned symbols
backgroundSearch(s, symbols) ==
  /\ session[s].bg = "running"
  /\ IF symbols = <<>>
     THEN /\ session' = [session EXCEPT ![s].items = <<NoSymbolsItem>>,
                                        ![s].busy = FALSE,
                                        ![s].bg = "done"]
          /\ symbolCache' =
               [symbolCache EXCEPT ![session[s].picked] = CacheEntry(<<>>)]
          /\ UNCHANGED <<entries, loaded>>
     ELSE /\ entries' = LoadedEntries
          /\ loaded' = TRUE
          /\ LET freshItems == FreshItems(symbols, entries', now) IN
             /\ symbolCache' =
                  [symbolCache EXCEPT
                     ![session[s].picked] = CacheEntry(freshItems)]
             /\ session' = [session EXCEPT
                  ![s].itemsForSearch = freshItems,
                  ![s].fzf = freshItems,
                  ![s].items = Take(freshItems, DISPLAY_LIMIT),
                  ![s].busy = FALSE,
                  ![s].bg = "done"]
  /\ UNCHANGED <<now, globalState, fzfScore, runs>>
  /\ UNCHANGED <<lastScore, instance, find, extracted, store, thrown, preview>>
  /\ reads' = IF symbols = <<>> THEN reads ELSE ReadStore
  /\ UNCHANGED <<calls, config, lastCommand>>

onDidChangeValue(s, value) ==
  /\ session[s].pc = "open"
  /\ value # session[s].value
  /\ session' = [session EXCEPT
       ![s].value = value,
       ![s].items = FilteredItems(session[s].fzf, value, fzfScore)]
  /\ UNCHANGED <<now, globalState, entries, loaded, symbolCache, fzfScore,
                 runs>>
  /\ UNCHANGED <<lastScore, instance, find, extracted, store, thrown, preview>>
  /\ lastCommand' =
       SetLastCommand("omn.searchSymbols", <<session[s].picked, value>>)
  /\ UNCHANGED <<reads, calls, config>>

onDidHide(s) ==
  /\ session[s].pc = "open"
  /\ session' = [session EXCEPT ![s].pc = "hidden"]
  /\ UNCHANGED <<now, globalState, entries, loaded, symbolCache, fzfScore,
                 runs>>
  /\ UNCHANGED <<lastScore, instance, find, extracted, store, thrown, preview>>
  /\ UNCHANGED <<reads, calls, config, lastCommand>>

\* onDidAccept up to the first await (previewManager.dispose())
onDidAccept(s) ==
  /\ session[s].pc = "open"
  /\ session[s].accept = "none"
  /\ session' = [session EXCEPT ![s].accept = "disposing"]
  /\ UNCHANGED <<now, globalState, entries, loaded, symbolCache, fzfScore,
                 runs>>
  /\ UNCHANGED <<lastScore, instance, find, extracted, store, thrown, preview>>
  /\ UNCHANGED <<reads, calls, config, lastCommand>>

\* the document opened without waiting for recordAccess
AfterSelected_NoRecord(selected) ==
  IF selected = NoItem THEN "ended" ELSE "opened"

\* where the handler is after reading selectedItems[0]
AfterSelected(selected) ==
  IF selected = NoItem THEN "ended"
  ELSE IF selected.file # <<>> /\ selected.label # "" THEN "saving"
  ELSE "opened"

\* onDidAccept from selectedItems[0] to the next await: item i of the pick
\* list is selected, or none (i = 0); the handler ends at
\* `await recencyTracker.recordAccess(...)` when save() rejects
acceptSelected(s, i) ==
  /\ session[s].accept = "disposing"
  /\ LET selected == IF i = 0 THEN NoItem ELSE session[s].items[i]
         after == AfterSelected(selected)
         rejected == after = "saving" /\ store.rejects = "update"
     IN /\ session' = [session EXCEPT
             ![s].selected = selected,
             ![s].accept = IF rejected THEN "threw" ELSE after]
        /\ thrown' = IF rejected THEN "onDidAccept" ELSE thrown
        /\ IF after = "saving"
           THEN /\ entries' = RecordAccessEntries(LoadedEntries, selected.file,
                                                  selected.label, now)
                /\ loaded' = TRUE
                /\ reads' = ReadStore
                /\ IF rejected
                   THEN UNCHANGED <<globalState, store>>
                   ELSE /\ globalState' = entries'
                        /\ store' = [store EXCEPT !.shape = "map"]
           ELSE UNCHANGED <<globalState, entries, loaded, store, reads>>
  /\ UNCHANGED <<now, symbolCache, fzfScore, runs>>
  /\ UNCHANGED <<lastScore, instance, find, extracted, preview>>
  /\ UNCHANGED <<calls, config, lastCommand>>

\* recordAccess has returned: the host is asked to open the document
acceptOpen(s) ==
  /\ session[s].accept = "saving"
  /\ session' = [session EXCEPT ![s].accept = "opened"]
  /\ UNCHANGED <<now, globalState, entries, loaded, symbolCache, fzfScore,
                 runs>>
  /\ UNCHANGED <<lastScore, instance, find, extracted, store, thrown, preview>>
  /\ UNCHANGED <<reads, calls, config, lastCommand>>

\* the command is run again once the earlier session has come to rest
rerun(s) ==
  /\ session[s].pc \in {"hidden", "cancelled", "threw"}
  /\ session[s].bg # "running"
  /\ session[s].accept \notin {"disposing", "saving"}
  /\ runs < MaxRuns
  /\ session' = [session EXCEPT ![s] = IdleSession]
  /\ UNCHANGED <<now, globalState, entries, loaded, symbolCache, fzfScore,
                 runs>>
  /\ UNCHANGED <<lastScore, instance, find, extracted, store, thrown, preview>>
  /\ UNCHANGED <<reads, calls, config, lastCommand>>

(***************************************************************************)
(* findSymbols of symbolSearch.ts: the scan and the removal of duplicates   *)
(***************************************************************************)
symbolTypePrecedence ==
  [zod |-> 100, class |-> 90, interface |-> 80, type |-> 70, react |-> 60,
   function |-> 50, method |-> 40, variable |-> 10, unknown |-> 0]

\* the type of each entry of symbolPatterns
PatternType ==
  [class |-> "class", function |-> "function", method |-> "method",
   variable |-> "variable", type |-> "type", interface |-> "interface",
   zod |-> "zod", react |-> "react", go_func |-> "function",
   go_type |-> "type"]

\* searchSet, as the types of its patterns in order; <<>> for an unknown kind
SearchSet(symbolType) ==
  IF symbolType = "all"
  THEN <<"class", "function", "method", "variable", "type", "interface",
         "zod", "react", "function", "type">>
  ELSE IF symbolType \in DOMAIN PatternType THEN <<PatternType[symbolType]>>
  ELSE <<>>

\* the kinds findSymbols is called with
SymbolTypes == {"all", "function", "zod", "bogus"}

\* the (symbol, file, line) a matched line may yield
Matched == {SymA, SymB, SymA2}

\* `${item.file}:${item.line}:${item.symbol}` with the file component left out
DedupKey_NoFile(item) == <<":", item.line, ":", item.symbol>>

\* `${item.file}:${item.line}:${item.symbol}`
DedupKey(item) == item.file \o <<":", item.line, ":", item.symbol>>

\* pattern, invoked, lines and pos are the position in the scan loops; inv
\* numbers the runRipgrep calls, failed holds those whose process failed, and
\* trace what became of each output line
IdleFind ==
  [pc |-> "idle", symbolType |-> "", search |-> 0, results |-> <<>>, i |-> 0,
   deduped |-> <<>>, returned |-> <<>>, pattern |-> 0, invoked |-> FALSE,
   inv |-> 0, lines |-> <<>>, pos |-> 0, trace |-> <<>>, failed |-> {}]

\* findSymbols up to the scan loop; an unknown kind returns [] at once
findSymbols(symbolType) ==
  /\ find.pc = "idle"
  /\ find' = IF SearchSet(symbolType) = <<>>
             THEN [IdleFind EXCEPT !.pc = "returned", !.symbolType = symbolType]
             ELSE [IdleFind EXCEPT !.pc = "scanning", !.symbolType = symbolType,
                                   !.search = 1, !.pattern = 1]
  /\ UNCHANGED <<now, globalState, entries, loaded, symbolCache, session,
                 fzfScore, runs, lastScore, instance, extracted,
                 store, thrown, preview>>
  /\ UNCHANGED <<reads, calls, config, lastCommand>>

\* results.push for a line matched by a pattern of the current search
pushResult(m) ==
  /\ find.pc = "scanning"
  /\ Len(find.results) < MaxResults
  /\ find' = [find EXCEPT !.results = Append(@,
                [symbol |-> m.symbol, file |-> m.file, line |-> m.line,
                 type |-> SearchSet(find.symbolType)[find.search]])]
  /\ UNCHANGED <<now, globalState, entries, loaded, symbolCache, session,
                 fzfScore, runs, lastScore, instance, extracted,
                 store, thrown, preview>>
  /\ UNCHANGED <<reads, calls, config, lastCommand>>

\* the scan moves to the next search of searchSet, or to the dedup loop
nextSearch ==
  /\ find.pc = "scanning"
  /\ find' = IF find.search < Len(SearchSet(find.symbolType))
             THEN [find EXCEPT !.search = @ + 1]
             ELSE [find EXCEPT !.pc = "dedup", !.i = 1]
  /\ UNCHANGED <<now, globalState, entries, loaded, symbolCache, session,
                 fzfScore, runs, lastScore, instance, extracted,
                 store, thrown, preview>>
  /\ UNCHANGED <<reads, calls, config, lastCommand>>

\* searchSet, as the names of its entries of symbolPatterns
SearchNames(symbolType) ==
  IF symbolType = "all"
  THEN <<"class", "function", "method", "variable", "type", "interface",
         "zod", "react", "go_func", "go_type">>
  ELSE IF symbolType \in DOMAIN PatternType THEN <<symbolType>>
  ELSE <<>>

\* search.patterns.length of each entry of symbolPatterns
PatternCount ==
  [class |-> 1, function |-> 2, method |-> 1, variable |-> 1, type |-> 1,
   interface |-> 1, zod |-> 1, react |-> 3, go_func |-> 2, go_type |-> 3]

\* no entry of symbolPatterns with an ignore list
IgnoreList_None(name) == {}

\* search.ignore of each entry of symbolPatterns; {} where there is none
IgnoreList(name) ==
  IF name = "method"
  THEN {"expect", "describe", "it", "beforeAll", "beforeEach", "afterEach",
        "afterAll", "constructor"}
  ELSE {}

\* extractSymbol returned null for the code of a line
NoSymbol == ""

\* the lines the search tool may print: wellFormed is whether the line
\* matches /^(.+?):(\d+):(\d+):(.*)$/, symbol what extractSymbol returns for
\* its code
ScanLines ==
  {[wellFormed |-> TRUE, file |-> File1, line |-> 1, symbol |-> "A"],
   [wellFormed |-> TRUE, file |-> File1, line |-> 2, symbol |-> "it"],
   [wellFormed |-> TRUE, file |-> File1, line |-> 3, symbol |-> NoSymbol],
   [wellFormed |-> FALSE, file |-> <<>>, line |-> 0, symbol |-> NoSymbol]}

\* the sequences over S of length at most n
SeqsUpTo(S, n) == UNION {[1..k -> S] : k \in 0..n}

\* how execFileSync may end with at most n lines on stdout: exit status 0
\* with matches, exit status 1 without any, or a failure (another exit
\* status, a missing binary, maxBuffer exceeded) after any output
Outcomes(n) ==
  {[status |-> "ok", stdout |-> l] : l \in SeqsUpTo(ScanLines, n) \ {<<>>}}
    \cup {[status |-> "nomatch", stdout |-> <<>>]}
    \cup {[status |-> "failed", stdout |-> l] : l \in SeqsUpTo(ScanLines, n)}

\* the lines runRipgrep returns: execFileSync throws unless the exit status
\* is 0, and the catch returns the lines of err.stdout when it is not empty
RunRipgrep(out) ==
  IF out.status = "ok" THEN out.stdout
  ELSE IF out.stdout # <<>> THEN out.stdout
  ELSE <<>>

\* the scan loop left at a line without the path:line:col:text shape
RestOfLines_Break(lines) ==
  IF Head(lines).wellFormed THEN Tail(lines) ELSE <<>>

\* the lines the inner loop goes on with after its first line
RestOfLines(lines) == Tail(lines)

\* what the body of the inner loop does with a line under the entry name
ParseLine(line, name) ==
  IF ~line.wellFormed THEN "malformed"
  ELSE IF line.symbol = NoSymbol THEN "nosymbol"
  ELSE IF line.symbol \in IgnoreList(name) THEN "ignored"
  ELSE "pushed"

\* the await of runRipgrep for the current pattern returns
runRipgrep(out) ==
  /\ find.pc = "scanning"
  /\ ~find.invoked
  /\ Len(find.trace) + Len(out.stdout) <= MaxLines
  /\ find' = [find EXCEPT
       !.invoked = TRUE,
       !.inv = @ + 1,
       !.lines = RunRipgrep(out),
       !.pos = 0,
       !.failed = IF out.status = "failed" THEN @ \cup {find.inv + 1} ELSE @]
  /\ UNCHANGED <<now, globalState, entries, loaded, symbolCache, session,
                 fzfScore, runs, lastScore, instance, extracted,
                 store, thrown, preview>>
  /\ UNCHANGED <<reads, calls, config, lastCommand>>

\* one iteration of the loop over the lines of the current pattern
parseLine ==
  /\ find.pc = "scanning"
  /\ find.invoked
  /\ find.lines # <<>>
  /\ LET line == Head(find.lines)
         name == SearchNames(find.symbolType)[find.search]
         what == ParseLine(line, name)
     IN find' = [find EXCEPT
          !.lines = RestOfLines(@),
          !.pos = @ + 1,
          !.trace = Append(@, [inv |-> find.inv, pos |-> find.pos + 1,
                               what |-> what]),
          !.results = IF what = "pushed"
                      THEN Append(@, [symbol |-> line.symbol,
                                      file |-> line.file, line |-> line.line,
                                      type |-> PatternType[name]])
                      ELSE @]
  /\ UNCHANGED <<now, globalState, entries, loaded, symbolCache, session,
                 fzfScore, runs, lastScore, instance, extracted,
                 store, thrown, preview>>
  /\ UNCHANGED <<reads, calls, config, lastCommand>>

\* the lines of the current pattern are used up: the scan moves to the next
\* pattern, to the next search, or to the dedup loop
nextPattern ==
  /\ find.pc = "scanning"
  /\ find.invoked
  /\ find.lines = <<>>
  /\ LET names == SearchNames(find.symbolType) IN
     find' = IF find.pattern < PatternCount[names[find.search]]
             THEN [find EXCEPT !.pattern = @ + 1, !.invoked = FALSE]
             ELSE IF find.search < Len(names)
             THEN [find EXCEPT !.search = @ + 1, !.pattern = 1,
                               !.invoked = FALSE]
             ELSE [find EXCEPT !.pc = "dedup", !.i = 1, !.invoked = FALSE]
  /\ UNCHANGED <<now, globalState, entries, loaded, symbolCache, session,
                 fzfScore, runs, lastScore, instance, extracted,
                 store, thrown, preview>>
  /\ UNCHANGED <<reads, calls, config, lastCommand>>

HasDedupKey(deduped, key) == \E j \in 1..Len(deduped) : deduped[j].key = key

DedupIndex(deduped, key) == CHOOSE j \in 1..Len(deduped) : deduped[j].key = key

\* the entry replaced when the precedence is equal as well
DedupSet_OrEqual(deduped, item, from) ==
  LET key == DedupKey(item) IN
  IF ~HasDedupKey(deduped, key)
  THEN Append(deduped, [key |-> key, item |-> item, from |-> from])
  ELSE IF symbolTypePrecedence[item.type]
            >= symbolTypePrecedence[deduped[DedupIndex(deduped, key)].item.type]
       THEN [deduped EXCEPT ![DedupIndex(deduped, key)] =
               [key |-> key, item |-> item, from |-> from]]
       ELSE deduped

\* a replaced key deleted and set anew, which moves it behind the others
DedupSet_MoveToEnd(deduped, item, from) ==
  LET key == DedupKey(item) IN
  IF ~HasDedupKey(deduped, key)
  THEN Append(deduped, [key |-> key, item |-> item, from |-> from])
  ELSE IF symbolTypePrecedence[item.type]
            > symbolTypePrecedence[deduped[DedupIndex(deduped, key)].item.type]
       THEN Append(SelectSeq(deduped, LAMBDA d : d.key # key),
                   [key |-> key, item |-> item, from |-> from])
       ELSE deduped

\* one iteration of the dedup loop over item results[from]; a Map keeps the
\* position of a key that is set again
DedupSet(deduped, item, from) ==
  LET key == DedupKey(item) IN
  IF ~HasDedupKey(deduped, key)
  THEN Append(deduped, [key |-> key, item |-> item, from |-> from])
  ELSE IF symbolTypePrecedence[item.type]
            > symbolTypePrecedence[deduped[DedupIndex(deduped, key)].item.type]
       THEN [deduped EXCEPT ![DedupIndex(deduped, key)] =
               [key |-> key, item |-> item, from |-> from]]
       ELSE deduped

dedupItem ==
  /\ find.pc = "dedup"
  /\ find.i <= Len(find.results)
  /\ find' = [find EXCEPT
       !.deduped = DedupSet(@, find.results[find.i], find.i),
       !.i = @ + 1]
  /\ UNCHANGED <<now, globalState, entries, loaded, symbolCache, session,
                 fzfScore, runs, lastScore, instance, extracted,
                 store, thrown, preview>>
  /\ UNCHANGED <<reads, calls, config, lastCommand>>

\* return Array.from(deduped.values())
returnDeduped ==
  /\ find.pc = "dedup"
  /\ find.i > Len(find.results)
  /\ find' = [find EXCEPT
       !.pc = "returned",
       !.returned = [j \in 1..Len(find.deduped) |-> find.deduped[j].item]]
  /\ UNCHANGED <<now, globalState, entries, loaded, symbolCache, session,
                 fzfScore, runs, lastScore, instance, extracted,
                 store, thrown, preview>>
  /\ UNCHANGED <<reads, calls, config, lastCommand>>

(***************************************************************************)
(* extractSymbol of symbolSearch.ts; a string is the sequence of its       *)
(* characters                                                              *)
(***************************************************************************)
Lower ==
  {"a", "b", "c", "d", "e", "f", "g", "h", "i", "j", "k", "l", "m", "n", "o",
   "p", "q", "r", "s", "t", "u", "v", "w", "x", "y", "z"}

Upper ==
  {"A", "B", "C", "D", "E", "F", "G", "H", "I", "J", "K", "L", "M", "N", "O",
   "P", "Q", "R", "S", "T", "U", "V", "W", "X", "Y", "Z"}

Digits == {"0", "1", "2", "3", "4", "5", "6", "7", "8", "9"}

\* /^[A-Za-z_][A-Za-z0-9_]*$/.test(text)
IsIdentifier(text) ==
  /\ Len(text) >= 1
  /\ text[1] \in Lower \cup Upper \cup {"_"}
  /\ \A i \in 2..Len(text) : text[i] \in Lower \cup Upper \cup Digits \cup {"_"}

\* the words extractSymbol does not return
Keywords ==
  {<<"c", "o", "n", "s", "t">>, <<"l", "e", "t">>, <<"v", "a", "r">>,
   <<"f", "u", "n", "c", "t", "i", "o", "n">>, <<"c", "l", "a", "s", "s">>,
   <<"t", "y", "p", "e">>,
   <<"i", "n", "t", "e", "r", "f", "a", "c", "e">>,
   <<"e", "x", "p", "o", "r", "t">>}

\* null, and a capture group that did not take part in the match
Null == <<>>

\* what a capture group may hold: nothing, a keyword, an identifier, a word
\* that starts with a digit, a keyword followed by a blank, an identifier
\* that starts with a keyword
GroupValues ==
  {Null, <<"l", "e", "t">>, <<"v", "a", "r">>, <<"A">>, <<"_", "1">>,
   <<"1", "A">>, <<"l", "e", "t", " ">>, <<"l", "e", "t", "s">>}

\* the loop of extractSymbol from match[i] down to match[1]
RECURSIVE ExtractFrom(_, _)
ExtractFrom(groups, i) ==
  IF i = 0 THEN Null
  ELSE IF groups[i] # Null /\ IsIdentifier(groups[i])
            /\ groups[i] \notin Keywords
       THEN groups[i]
       ELSE ExtractFrom(groups, i - 1)

\* the groups scanned from the first to the last
ExtractSymbol_FirstToLast(matched, groups) ==
  LET Reverse(g) == [i \in 1..Len(g) |-> g[Len(g) - i + 1]] IN
  IF ~matched THEN Null ELSE ExtractFrom(Reverse(groups), Len(groups))

\* extractSymbol, given whether line.match(regex) matched and its groups
ExtractSymbol(matched, groups) ==
  IF ~matched THEN Null ELSE ExtractFrom(groups, Len(groups))

\* extracted before any extractSymbol call has returned
NoExtract ==
  [called |-> FALSE, matched |-> FALSE, groups |-> <<>>, symbol |-> Null]

\* the call of extractSymbol on the arguments held in extracted; its return
\* value is kept in extracted.symbol
extractSymbol ==
  /\ ~extracted.called
  /\ extracted' =
       [extracted EXCEPT
          !.called = TRUE,
          !.symbol = ExtractSymbol(extracted.matched, extracted.groups)]
  /\ UNCHANGED <<now, globalState, entries, loaded, symbolCache, session,
                 fzfScore, runs, lastScore, instance, find, store, thrown,
                 preview>>
  /\ UNCHANGED <<reads, calls, config, lastCommand>>

(***************************************************************************)
(* PreviewManager of symbolPreview.ts within one pick-list session         *)
(***************************************************************************)
\* pc is where the pick list is; originalEditor the reference init() keeps
\* and start the selection that editor had then; selection is the selection
\* of that editor now and active what the active column shows; showing and
\* dispose are where a showFile call and the dispose call are
IdlePreview ==
  [pc |-> "idle", accepted |-> FALSE, initialized |-> FALSE,
   originalEditor |-> "none", start |-> 0, selection |-> 0,
   active |-> "none", showing |-> "none", dispose |-> "none"]

\* what closing the preview editor leaves in the active column
BehindPreview ==
  IF preview.originalEditor = "editor" THEN "original" ELSE "none"

\* `await previewManager.init()` at the start of the command
previewInit ==
  /\ preview.pc = "idle"
  /\ preview' = [preview EXCEPT
       !.pc = "open",
       !.originalEditor = IF preview.active = "original" THEN "editor"
                          ELSE "none",
       !.start = preview.selection,
       !.initialized = TRUE]
  /\ UNCHANGED <<now, globalState, entries, loaded, symbolCache, session,
                 fzfScore, runs, lastScore, instance, find, extracted,
                 store, thrown>>
  /\ UNCHANGED <<reads, calls, config, lastCommand>>

\* onDidChangeActive: showFile up to its await of openTextDocument
showFile ==
  /\ preview.pc = "open"
  /\ ~preview.accepted
  /\ preview.showing = "none"
  /\ preview' = [preview EXCEPT !.showing = "opening"]
  /\ UNCHANGED <<now, globalState, entries, loaded, symbolCache, session,
                 fzfScore, runs, lastScore, instance, find, extracted,
                 store, thrown>>
  /\ UNCHANGED <<reads, calls, config, lastCommand>>

\* showFile from window.showTextDocument(doc, ...) on: the preview is shown
showTextDocument ==
  /\ preview.showing = "opening"
  /\ preview' = [preview EXCEPT !.showing = "none", !.active = "preview"]
  /\ UNCHANGED <<now, globalState, entries, loaded, symbolCache, session,
                 fzfScore, runs, lastScore, instance, find, extracted,
                 store, thrown>>
  /\ UNCHANGED <<reads, calls, config, lastCommand>>

\* onDidHide after Escape: dispose() up to its first await
hide ==
  /\ preview.pc = "open"
  /\ ~preview.accepted
  /\ preview' = [preview EXCEPT
       !.pc = "hidden",
       !.dispose = IF preview.initialized THEN "closing" ELSE "done"]
  /\ UNCHANGED <<now, globalState, entries, loaded, symbolCache, session,
                 fzfScore, runs, lastScore, instance, find, extracted,
                 store, thrown>>
  /\ UNCHANGED <<reads, calls, config, lastCommand>>

\* the user clicks into the original editor, which is visible: the cursor
\* moves to sel and the pick list, having lost the focus, is hidden
clickEditor(sel) ==
  /\ preview.pc = "open"
  /\ ~preview.accepted
  /\ preview.active = "original"
  /\ sel # preview.selection
  /\ preview' = [preview EXCEPT
       !.selection = sel,
       !.pc = "hidden",
       !.dispose = IF preview.initialized THEN "closing" ELSE "done"]
  /\ UNCHANGED <<now, globalState, entries, loaded, symbolCache, session,
                 fzfScore, runs, lastScore, instance, find, extracted,
                 store, thrown>>
  /\ UNCHANGED <<reads, calls, config, lastCommand>>

\* onDidAccept: dispose() up to its first await
accept ==
  /\ preview.pc = "open"
  /\ ~preview.accepted
  /\ preview' = [preview EXCEPT
       !.accepted = TRUE,
       !.dispose = IF preview.initialized THEN "closing" ELSE "done"]
  /\ UNCHANGED <<now, globalState, entries, loaded, symbolCache, session,
                 fzfScore, runs, lastScore, instance, find, extracted,
                 store, thrown>>
  /\ UNCHANGED <<reads, calls, config, lastCommand>>

\* dispose(): a visible preview editor is closed
disposeClose ==
  /\ preview.dispose = "closing"
  /\ preview' = [preview EXCEPT
       !.active = IF @ = "preview" THEN BehindPreview ELSE @,
       !.dispose = "restoring"]
  /\ UNCHANGED <<now, globalState, entries, loaded, symbolCache, session,
                 fzfScore, runs, lastScore, instance, find, extracted,
                 store, thrown>>
  /\ UNCHANGED <<reads, calls, config, lastCommand>>

\* dispose(): the original editor is shown with the selection it has now
disposeRestore ==
  /\ preview.dispose = "restoring"
  /\ preview' = [preview EXCEPT
       !.active = IF preview.originalEditor = "editor" THEN "original" ELSE @,
       !.initialized = FALSE,
       !.dispose = "done"]
  /\ UNCHANGED <<now, globalState, entries, loaded, symbolCache, session,
                 fzfScore, runs, lastScore, instance, find, extracted,
                 store, thrown>>
  /\ UNCHANGED <<reads, calls, config, lastCommand>>

\* onDidAccept after dispose(): the accepted document is shown, and the pick
\* list, having lost the focus, is hidden
openAccepted ==
  /\ preview.pc = "open"
  /\ preview.accepted
  /\ preview.dispose = "done"
  /\ preview' = [preview EXCEPT !.active = "selected", !.pc = "hidden"]
  /\ UNCHANGED <<now, globalState, entries, loaded, symbolCache, session,
                 fzfScore, runs, lastScore, instance, find, extracted,
                 store, thrown>>
  /\ UNCHANGED <<reads, calls, config, lastCommand>>

(***************************************************************************)
(* Specification of the search sessions over one tracker                   *)
(***************************************************************************)
\* persisted recency maps a session may start from
SessionStores == {<<>>, <<Entry(File1, "B", 2, FREQUENCY_CAP)>>}

\* scores the fuzzy matcher may give the labels for the query "q"; 0 is no match
FzfScores ==
  {[l \in Labels |-> [q \in Queries \ {""} |-> sc[l]]] :
     sc \in {[A |-> 2, B |-> 1], [A |-> 0, B |-> 1]}}

Init ==
  /\ now = 2
  /\ globalState \in SessionStores
  /\ entries = <<>>
  /\ loaded = FALSE
  /\ symbolCache = [k \in Kinds |-> NoEntry]
  /\ session = [s \in Sessions |-> IdleSession]
  /\ fzfScore \in FzfScores
  /\ runs = 0
  /\ lastScore = NoScore
  /\ instance = 1
  /\ find = IdleFind
  /\ extracted = NoExtract
  /\ store = HealthyStore
  /\ thrown = "none"
  /\ preview = IdlePreview
  /\ reads = 0
  /\ calls = <<>>
  /\ config = IdleConfig
  /\ lastCommand = Untracked

Next ==
  \/ \E s \in Sessions, kind \in Kinds : searchSymbols(s, kind)
  \/ \E s \in Sessions : cancelPick(s)
  \/ \E s \in Sessions, symbols \in Scans : backgroundSearch(s, symbols)
  \/ \E s \in Sessions, value \in Queries : onDidChangeValue(s, value)
  \/ \E s \in Sessions : onDidHide(s)
  \/ \E s \in Sessions : onDidAccept(s)
  \/ \E s \in Sessions, i \in 0..DISPLAY_LIMIT :
        i <= Len(session[s].items) /\ acceptSelected(s, i)
  \/ \E s \in Sessions : acceptOpen(s)
  \/ \E s \in Sessions : rerun(s)
  \/ Tick

Spec == Init /\ [][Next]_vars

(***************************************************************************)
(* Specification of the tracker alone, called sequentially                 *)
(***************************************************************************)
\* persisted recency maps a tracker may be constructed over
TrackerStores ==
  {<<>>,
   <<Entry(File1, "A", 1, 5)>>,
   <<Entry(File1, "A", 0, 5), Filler(1, 0, MAX_ENTRIES - 1)>>,
   <<Filler(1, 1, MAX_ENTRIES - 2), Entry(File1, "A", 1, 5),
     Filler(2, 0, Over), Entry(File2, "B", 0, 1)>>}

TrackerInit ==
  /\ now = 2
  /\ globalState \in TrackerStores
  /\ entries = <<>>
  /\ loaded = FALSE
  /\ symbolCache = [k \in Kinds |-> NoEntry]
  /\ session = [s \in Sessions |-> IdleSession]
  /\ fzfScore = [l \in Labels |-> [q \in Queries \ {""} |-> 0]]
  /\ runs = 0
  /\ lastScore = NoScore
  /\ instance = 1
  /\ find = IdleFind
  /\ extracted = NoExtract
  /\ store = HealthyStore
  /\ thrown = "none"
  /\ preview = IdlePreview
  /\ reads = 0
  /\ calls = <<>>
  /\ config = IdleConfig
  /\ lastCommand = Untracked

TrackerNext ==
  \/ load
  \/ \E filePath \in Files, symbolName \in Labels :
        recordAccess(filePath, symbolName)
  \/ \E filePath \in Files, symbolName \in Labels :
        getScore(filePath, symbolName)
  \/ \E filePath \in Files, symbolName \in Labels :
        getScores(filePath, symbolName)
  \/ clear
  \/ newTracker
  \/ Tick

TrackerSpec == TrackerInit /\ [][TrackerNext]_vars

(***************************************************************************)
(* Specification of one findSymbols call                                   *)
(***************************************************************************)
FindInit ==
  /\ now = 2
  /\ globalState = <<>>
  /\ entries = <<>>
  /\ loaded = FALSE
  /\ symbolCache = [k \in Kinds |-> NoEntry]
  /\ session = [s \in Sessions |-> IdleSession]
  /\ fzfScore = [l \in Labels |-> [q \in Queries \ {""} |-> 0]]
  /\ runs = 0
  /\ lastScore = NoScore
  /\ instance = 1
  /\ find = IdleFind
  /\ extracted = NoExtract
  /\ store = HealthyStore
  /\ thrown = "none"
  /\ preview = IdlePreview
  /\ reads = 0
  /\ calls = <<>>
  /\ config = IdleConfig
  /\ lastCommand = Untracked

FindNext ==
  \/ \E symbolType \in SymbolTypes : findSymbols(symbolType)
  \/ \E m \in Matched : pushResult(m)
  \/ nextSearch
  \/ dedupItem
  \/ returnDeduped

FindSpec == FindInit /\ [][FindNext]_vars

(***************************************************************************)
(* Specification of one findSymbols call, line by line                     *)
(***************************************************************************)
\* the kinds the scan is followed for
ScanTypes == {"function", "method", "bogus"}

ScanNext ==
  \/ \E symbolType \in ScanTypes : findSymbols(symbolType)
  \/ \E out \in Outcomes(MaxLines) : runRipgrep(out)
  \/ parseLine
  \/ nextPattern
  \/ dedupItem
  \/ returnDeduped

ScanSpec == FindInit /\ [][ScanNext]_vars

(***************************************************************************)
(* Specification of extractSymbol over the groups of a match               *)
(***************************************************************************)
\* the arguments of the call: whether the line matched, and its groups
ExtractInputs ==
  {[NoExtract EXCEPT !.matched = TRUE, !.groups = groups] :
     groups \in SeqsUpTo(GroupValues, MaxGroups)} \cup {NoExtract}

ExtractInit ==
  /\ now = 2
  /\ globalState = <<>>
  /\ entries = <<>>
  /\ loaded = FALSE
  /\ symbolCache = [k \in Kinds |-> NoEntry]
  /\ session = [s \in Sessions |-> IdleSession]
  /\ fzfScore = [l \in Labels |-> [q \in Queries \ {""} |-> 0]]
  /\ runs = 0
  /\ lastScore = NoScore
  /\ instance = 1
  /\ find = IdleFind
  /\ extracted \in ExtractInputs
  /\ store = HealthyStore
  /\ thrown = "none"
  /\ preview = IdlePreview
  /\ reads = 0
  /\ calls = <<>>
  /\ config = IdleConfig
  /\ lastCommand = Untracked

ExtractNext == extractSymbol

ExtractSpec == ExtractInit /\ [][ExtractNext]_vars

(***************************************************************************)
(* Specification of the tracker over a store of unexpected shape           *)
(***************************************************************************)
\* what a store may hold that the tracker did not write
CorruptStores ==
  {[shape |-> "null", stored |-> <<>>],
   [shape |-> "number", stored |-> <<>>],
   [shape |-> "map", stored |-> <<Malformed(File1, "A")>>],
   [shape |-> "map",
    stored |-> <<Entry(File1, "B", 1, 5), Malformed(File1, "A")>>]}

CorruptInit ==
  /\ now = 2
  /\ \E c \in CorruptStores :
       /\ globalState = c.stored
       /\ store = [shape |-> c.shape, rejects |-> "none"]
  /\ entries = <<>>
  /\ loaded = FALSE
  /\ symbolCache = [k \in Kinds |-> NoEntry]
  /\ session = [s \in Sessions |-> IdleSession]
  /\ fzfScore = [l \in Labels |-> [q \in Queries \ {""} |-> 0]]
  /\ runs = 0
  /\ lastScore = NoScore
  /\ instance = 1
  /\ find = IdleFind
  /\ extracted = NoExtract
  /\ thrown = "none"
  /\ preview = IdlePreview
  /\ reads = 0
  /\ calls = <<>>
  /\ config = IdleConfig
  /\ lastCommand = Untracked

CorruptSpec == CorruptInit /\ [][TrackerNext]_vars

(***************************************************************************)
(* Specification of a search session over a store whose calls may reject   *)
(***************************************************************************)
\* the call of the store that rejects, if any
Rejects == {"none", "get", "update"}

FaultInit ==
  /\ now = 2
  /\ globalState \in SessionStores
  /\ store \in {[shape |-> "map", rejects |-> r] : r \in Rejects}
  /\ entries = <<>>
  /\ loaded = FALSE
  /\ symbolCache = [k \in Kinds |-> NoEntry]
  /\ session = [s \in Sessions |-> IdleSession]
  /\ fzfScore = [l \in Labels |-> [q \in Queries \ {""} |-> 0]]
  /\ runs = 0
  /\ lastScore = NoScore
  /\ instance = 1
  /\ find = IdleFind
  /\ extracted = NoExtract
  /\ thrown = "none"
  /\ preview = IdlePreview
  /\ reads = 0
  /\ calls = <<>>
  /\ config = IdleConfig
  /\ lastCommand = Untracked

FaultNext ==
  \/ \E s \in Sessions, kind \in Kinds : searchSymbols(s, kind)
  \/ \E s \in Sessions, symbols \in Scans : backgroundSearch(s, symbols)
  \/ \E s \in Sessions : onDidHide(s)
  \/ \E s \in Sessions : onDidAccept(s)
  \/ \E s \in Sessions, i \in 0..DISPLAY_LIMIT :
        i <= Len(session[s].items) /\ acceptSelected(s, i)
  \/ \E s \in Sessions : acceptOpen(s)
  \/ \E s \in Sessions : rerun(s)
  \/ Tick

FaultSpec == FaultInit /\ [][FaultNext]_vars

(***************************************************************************)
(* Specification of the preview manager during one session                 *)
(***************************************************************************)
\* the window before the command: no editor, or one with its cursor
\* somewhere
PreviewStarts ==
  {IdlePreview} \cup
  {[IdlePreview EXCEPT !.active = "original", !.selection = sel] :
     sel \in 0..MaxSel}

PreviewInit ==
  /\ now = 2
  /\ globalState = <<>>
  /\ entries = <<>>
  /\ loaded = FALSE
  /\ symbolCache = [k \in Kinds |-> NoEntry]
  /\ session = [s \in Sessions |-> IdleSession]
  /\ fzfScore = [l \in Labels |-> [q \in Queries \ {""} |-> 0]]
  /\ runs = 0
  /\ lastScore = NoScore
  /\ instance = 1
  /\ find = IdleFind
  /\ extracted = NoExtract
  /\ store = HealthyStore
  /\ thrown = "none"
  /\ preview \in PreviewStarts
  /\ reads = 0
  /\ calls = <<>>
  /\ config = IdleConfig
  /\ lastCommand = Untracked

PreviewNext ==
  \/ previewInit
  \/ showFile
  \/ showTextDocument
  \/ hide
  \/ \E sel \in 0..MaxSel : clickEditor(sel)
  \/ accept
  \/ disposeClose
  \/ disposeRestore
  \/ openAccepted

PreviewSpec == PreviewInit /\ [][PreviewNext]_vars

(***************************************************************************)
(* Specification of getScore over persisted maps and clock readings        *)
(***************************************************************************)
\* two entries accessed at the same time, one of them once more often
ScoreStores ==
  {<<Entry(File1, "A", t, c), Entry(File1, "B", t, c + 1)>> :
     t \in {0, MaxSkew}, c \in 1..MaxCount}

ScoreInit ==
  /\ now = MaxSkew
  /\ globalState \in ScoreStores
  /\ entries = <<>>
  /\ loaded = FALSE
  /\ symbolCache = [k \in Kinds |-> NoEntry]
  /\ session = [s \in Sessions |-> IdleSession]
  /\ fzfScore = [l \in Labels |-> [q \in Queries \ {""} |-> 0]]
  /\ runs = 0
  /\ lastScore = NoScore
  /\ instance = 1
  /\ find = IdleFind
  /\ extracted = NoExtract
  /\ store = HealthyStore
  /\ thrown = "none"
  /\ preview = IdlePreview
  /\ reads = 0
  /\ calls = <<>>
  /\ config = IdleConfig
  /\ lastCommand = Untracked

ScoreNext ==
  \/ load
  \/ \E filePath \in Files, symbolName \in Labels :
        getScore(filePath, symbolName)
  \/ clockSetBack
  \/ Tick

ScoreSpec == ScoreInit /\ [][ScoreNext]_vars

(***************************************************************************)
(* Properties of the tracker (TrackerSpec)                                 *)
(***************************************************************************)
SymbolKeys == {<<f, l>> : f \in Files, l \in Labels}

\* C8: once a recordAccess call has completed, the in-memory map and the
\* persisted map each hold at most MAX_ENTRIES (1000) entries, whatever map
\* the tracker started from.
C8_CapAfterRecordAccess ==
  runs > 0 => /\ MapSize(entries) <= MAX_ENTRIES
              /\ MapSize(globalState) <= MAX_ENTRIES

\* a recordAccess of a key no store holds filled the map beyond the cap and
\* it was pruned back to the cap
C8_Witness ==
  /\ runs > 0
  /\ HasKey(entries, RecencyKey(File2, "A"))
  /\ MapSize(entries) = MAX_ENTRIES
  /\ MapSize(globalState) = MAX_ENTRIES

\* how many entries of run i of map m are missing from map post
Evicted(m, post, i) ==
  IF HasKey(post, m[i].key) THEN m[i].n - post[IndexOf(post, m[i].key)].n
  ELSE m[i].n

\* C9: whenever recordAccess evicts entries, it evicts exactly
\* (entry count - 1000) of them and every evicted entry has a lastAccessed
\* less than or equal to that of every surviving entry.
C9_EvictsOldest ==
  [][\A k \in SymbolKeys :
       recordAccess(k[1], k[2]) =>
         LET m == Upsert(LoadedEntries, k[1], k[2], now) IN
         MapSize(entries') < MapSize(m) =>
           /\ MapSize(m) - MapSize(entries') = MapSize(m) - MAX_ENTRIES
           /\ \A i \in 1..Len(m), j \in 1..Len(entries') :
                Evicted(m, entries', i) > 0 =>
                  m[i].lastAccessed <= entries'[j].lastAccessed]_vars

\* the entry of File1#A, which the full stores hold, has been evicted
C9_Witness ==
  /\ runs > 0
  /\ MapSize(entries) = MAX_ENTRIES
  /\ ~HasKey(entries, RecencyKey(File1, "A"))

\* C10: getScore right after a completed recordAccess on a key reports an
\* accessCount exactly 1 greater than getScore reported for that key right
\* before the call.
C10_AccessCountPlusOne ==
  [][\A k \in SymbolKeys :
       recordAccess(k[1], k[2]) =>
         GetScore(entries', k[1], k[2], now').accessCount
           = GetScore(entries, k[1], k[2], now).accessCount + 1]_vars

\* C11: each completed recordAccess writes the whole current map to the
\* store: the written map holds the accessed key with the given path,
\* lastAccessed equal to the time of the call and accessCount 1 for a new
\* key or the previous count plus 1, and every other entry it holds is an
\* entry of the map before the call, unchanged; without eviction none is
\* missing.
C11_RecordAccessWritesWholeMap ==
  [][\A k \in SymbolKeys :
       recordAccess(k[1], k[2]) =>
         LET m == LoadedEntries
             key == RecencyKey(k[1], k[2])
             written == globalState'
         IN /\ written = entries'
            /\ HasKey(written, key)
            /\ LET e == written[IndexOf(written, key)] IN
               /\ e.path = k[1]
               /\ e.lastAccessed = now
               /\ e.accessCount = IF HasKey(m, key)
                                  THEN m[IndexOf(m, key)].accessCount + 1
                                  ELSE 1
               /\ e.n = 1
            /\ \A j \in 1..Len(written) :
                 written[j].key # key =>
                   /\ HasKey(m, written[j].key)
                   /\ LET o == m[IndexOf(m, written[j].key)] IN
                      /\ written[j].path = o.path
                      /\ written[j].lastAccessed = o.lastAccessed
                      /\ written[j].accessCount = o.accessCount
                      /\ written[j].n <= o.n
            /\ MapSize(written) =
                 Min(MapSize(m) + (IF HasKey(m, key) THEN 0 ELSE 1),
                     MAX_ENTRIES)]_vars

\* the store holds File1#A with the count 5 of the initial store plus 1,
\* next to entries the call left as they were
C11_Witness ==
  /\ runs > 0
  /\ HasKey(globalState, RecencyKey(File1, "A"))
  /\ globalState[IndexOf(globalState, RecencyKey(File1, "A"))].accessCount = 6
  /\ globalState[IndexOf(globalState, RecencyKey(File1, "A"))].lastAccessed
       = now
  /\ HasKey(globalState, <<"other", 1>>)
  /\ globalState = entries

\* C12: getScore on a newly constructed tracker, before load or recordAccess
\* has been called on it, returns for a key the store holds the accessCount
\* of the stored entry and a score greater than 0.
C12_GetScoreBeforeLoadReadsStore ==
  [][\A k \in SymbolKeys :
       /\ getScore(k[1], k[2])
       /\ ~loaded
       /\ HasKey(globalState, RecencyKey(k[1], k[2]))
       => /\ lastScore'.accessCount =
               globalState[IndexOf(globalState,
                                   RecencyKey(k[1], k[2]))].accessCount
          /\ lastScore'.score > 0]_vars

\* C13: what a loaded tracker reports for a key (accessCount, lastAccessed
\* and the score at any read time) is what the persisted map gives, so a
\* new tracker over the same store, once loaded, reports the same as the
\* tracker whose recordAccess calls wrote the store.
C13_ReloadReportsSame ==
  loaded =>
    \A k \in SymbolKeys, t \in now..MaxNow :
      GetScore(entries, k[1], k[2], t) = GetScore(globalState, k[1], k[2], t)

\* a second tracker instance has loaded a store written by recordAccess and
\* getScore on it has returned the count recordAccess wrote
C13_Witness ==
  /\ instance = 2
  /\ loaded
  /\ runs > 0
  /\ HasKey(entries, RecencyKey(File1, "A"))
  /\ lastScore = GetScore(entries, File1, "A", now)
  /\ lastScore.accessCount = 6

\* the persisted map is empty and getScore gives the zero score for every key
Cleared ==
  /\ globalState = <<>>
  /\ \A k \in SymbolKeys, t \in now..MaxNow :
       GetScore(entries, k[1], k[2], t) = ZeroScore

\* C14: after clear() the persisted map is the empty map and getScore gives
\* the zero score for every key, and this lasts until the next recordAccess.
C14_ClearWipesUntilNextAccess ==
  [][/\ clear => Cleared'
     /\ (Cleared /\ ~(\E k \in SymbolKeys : recordAccess(k[1], k[2])))
          => Cleared']_vars

\* clear() has wiped a store that recordAccess had written, and getScore has
\* since returned the zero score
C14_Witness ==
  /\ runs > 0
  /\ loaded
  /\ globalState = <<>>
  /\ entries = <<>>
  /\ lastScore = ZeroScore

\* C18: getScore for a key without an entry returns the zero score and
\* leaves the in-memory map and the store as they were.
C18_AbsentKeyZeroAndNoWrite ==
  [][\A k \in SymbolKeys :
       getScore(k[1], k[2]) /\ ~HasKey(entries, RecencyKey(k[1], k[2])) =>
         /\ lastScore' = ZeroScore
         /\ entries' = entries
         /\ globalState' = globalState
         /\ loaded' = loaded]_vars

\* getScore has returned the zero score on a loaded tracker whose map holds
\* entries of other keys
C18_Witness ==
  /\ loaded
  /\ entries # <<>>
  /\ globalState = entries
  /\ lastScore = ZeroScore

(***************************************************************************)
(* Properties of getScore (ScoreSpec)                                      *)
(***************************************************************************)
\* the score getScore gives key k of the in-memory map at read time t
ScoreAt(k, t) == GetScore(entries, k[1], k[2], t).score

StoredKeys == {k \in SymbolKeys : HasKey(entries, RecencyKey(k[1], k[2]))}

LastAccessedOf(k) ==
  entries[IndexOf(entries, RecencyKey(k[1], k[2]))].lastAccessed

AccessCountOf(k) ==
  entries[IndexOf(entries, RecencyKey(k[1], k[2]))].accessCount

\* C15: every score getScore returns lies within [0, 100], whatever the
\* entry and the read time.
C15_ScoreWithinRange ==
  lastScore # NoScore => lastScore.score >= 0 /\ lastScore.score <= 1000

C17_ScoreGrowsWithCount ==
  \A k1 \in StoredKeys, k2 \in StoredKeys :
    LastAccessedOf(k1) = LastAccessedOf(k2)
      /\ AccessCountOf(k1) <= AccessCountOf(k2) =>
        \A t \in (LastAccessedOf(k1) - MaxSkew)..(LastAccessedOf(k1) + MaxAge) :
          /\ ScoreAt(k1, t) <= ScoreAt(k2, t)
          /\ AccessCountOf(k1) >= FREQUENCY_CAP =>
               ScoreAt(k1, t) = ScoreAt(k2, t)

\* getScore has returned, for an entry accessed 51 times, the score of the
\* entry accessed 50 times at the same time
C17_Witness ==
  /\ loaded
  /\ lastScore = GetScore(entries, File1, "B", now)
  /\ lastScore.accessCount = FREQUENCY_CAP + 1
  /\ AccessCountOf(<<File1, "A">>) = FREQUENCY_CAP
  /\ lastScore.score = ScoreAt(<<File1, "A">>, now)

(***************************************************************************)
(* Properties of findSymbols (FindSpec)                                    *)
(***************************************************************************)
SameOccurrenceKey(a, b) ==
  a.file = b.file /\ a.line = b.line /\ a.symbol = b.symbol

\* C19: the list findSymbols returns holds no two occurrences with the same
\* (file, line, symbol name), and every such key among the raw occurrences
\* is in it exactly once.
C19_OneOccurrencePerKey ==
  find.pc = "returned" =>
    /\ \A i \in 1..Len(find.returned), j \in 1..Len(find.returned) :
         i # j => ~SameOccurrenceKey(find.returned[i], find.returned[j])
    /\ \A i \in 1..Len(find.results) :
         Cardinality({j \in 1..Len(find.returned) :
            SameOccurrenceKey(find.returned[j], find.results[i])}) = 1

\* a scan of all kinds gathered MaxResults occurrences of two keys and
\* returned two
C19_Witness ==
  /\ find.pc = "returned"
  /\ find.symbolType = "all"
  /\ Len(find.results) = MaxResults
  /\ Len(find.returned) = 2

\* the raw occurrences with the key of occurrence x
SameKeyAs(x) ==
  {i \in 1..Len(find.results) : SameOccurrenceKey(find.results[i], x)}

\* the highest precedence among the raw occurrences with the key of x
BestPrecedence(x) ==
  CHOOSE p \in {symbolTypePrecedence[find.results[i].type] : i \in SameKeyAs(x)} :
    \A i \in SameKeyAs(x) : symbolTypePrecedence[find.results[i].type] <= p

\* the first raw occurrence with the key of x that has that precedence
FirstBest(x) ==
  CHOOSE i \in SameKeyAs(x) :
    /\ symbolTypePrecedence[find.results[i].type] = BestPrecedence(x)
    /\ \A h \in SameKeyAs(x) :
         symbolTypePrecedence[find.results[h].type] = BestPrecedence(x)
           => i <= h

\* C20: of the raw occurrences that share a (file, line, symbol name) key
\* the one kept has a kind of the highest catalog precedence among them,
\* and it is the first of these in scan order.
C20_KeepsHighestPrecedenceFirstSeen ==
  find.pc = "returned" =>
    /\ Len(find.returned) = Len(find.deduped)
    /\ \A j \in 1..Len(find.deduped) :
         LET kept == find.deduped[j] IN
         /\ symbolTypePrecedence[find.returned[j].type]
              = BestPrecedence(kept.item)
         /\ kept.from = FirstBest(kept.item)
         /\ find.returned[j] = find.results[kept.from]

\* an occurrence replaced the earlier one of its key, of lower precedence,
\* and a later occurrence of the same key and precedence did not replace it
C20_Witness ==
  /\ find.pc = "returned"
  /\ \E j \in 1..Len(find.deduped) :
       LET kept == find.deduped[j] IN
       /\ \E i \in SameKeyAs(kept.item) :
            i < kept.from
              /\ symbolTypePrecedence[find.results[i].type]
                   < symbolTypePrecedence[kept.item.type]
       /\ \E i \in SameKeyAs(kept.item) :
            i > kept.from /\ find.results[i].type = kept.item.type

(***************************************************************************)
(* Properties of the scan of findSymbols (ScanSpec)                        *)
(***************************************************************************)
\* the entries of trace for the lines that became occurrences; the i-th one
\* belongs to results[i]
PushedTrace == SelectSeq(find.trace, LAMBDA e : e.what = "pushed")

\* the occurrences results[i], results[i + 1], ... that came from
\* invocations whose process did not fail
RECURSIVE ResultsOfOthers(_)
ResultsOfOthers(i) ==
  IF i > Len(find.results) THEN <<>>
  ELSE (IF PushedTrace[i].inv \in find.failed THEN <<>>
        ELSE <<find.results[i]>>) \o ResultsOfOthers(i + 1)

RECURSIVE DedupFrom(_, _, _)
DedupFrom(deduped, list, i) ==
  IF i > Len(list) THEN deduped
  ELSE DedupFrom(DedupSet(deduped, list[i], i), list, i + 1)

\* the dedup loop run over list
Deduplicated(list) ==
  LET d == DedupFrom(<<>>, list, 1) IN [j \in 1..Len(d) |-> d[j].item]

\* C21: if the external search invocation of a pattern fails, findSymbols
\* still returns, and what it returns is the deduplicated list of the
\* occurrences produced by the other pattern invocations of the scan.
C21_FailedInvocationLeavesOthers ==
  find.pc = "returned" /\ find.failed # {} =>
    find.returned = Deduplicated(ResultsOfOthers(1))

\* C22: an invocation that failed (other than with the no-matches status)
\* contributes no lines and no occurrences to the scan, whatever its
\* process had printed before it failed.
C22_FailedInvocationContributesNothing ==
  /\ find.invoked /\ find.inv \in find.failed => find.lines = <<>>
  /\ \A k \in 1..Len(find.trace) : find.trace[k].inv \notin find.failed

\* C23: a line of tool output that does not have the path:line:col:text
\* shape is skipped without an occurrence, every line that is well formed,
\* yields a symbol and is not ignored becomes an occurrence, and the lines
\* after either are still parsed.
C23_MalformedLineSkipped ==
  [][find.lines # <<>> =>
       LET line == Head(find.lines)
           name == SearchNames(find.symbolType)[find.search]
       IN /\ find'.lines = Tail(find.lines)
          /\ Len(find'.trace) = Len(find.trace) + 1
          /\ ~line.wellFormed => find'.results = find.results
          /\ line.wellFormed /\ line.symbol # NoSymbol
               /\ line.symbol \notin IgnoreList(name) =>
               find'.results =
                 Append(find.results,
                        [symbol |-> line.symbol, file |-> line.file,
                         line |-> line.line, type |-> PatternType[name]])]_vars

\* a scan has returned in which one invocation printed a well-formed line,
\* a malformed one and a well-formed one, and both well-formed lines became
\* occurrences
C23_Witness ==
  /\ find.pc = "returned"
  /\ Len(find.results) = 2
  /\ \E k \in 1..(Len(find.trace) - 2) :
       /\ find.trace[k].what = "pushed"
       /\ find.trace[k + 1].what = "malformed"
       /\ find.trace[k + 2].what = "pushed"
       /\ find.trace[k].inv = find.trace[k + 2].inv
       /\ find.trace[k].pos = 1 /\ find.trace[k + 2].pos = 3

\* the groups of the last extractSymbol call that hold a valid identifier
\* other than a keyword
ValidGroups ==
  {i \in 1..Len(extracted.groups) :
     /\ extracted.groups[i] # Null
     /\ IsIdentifier(extracted.groups[i])
     /\ extracted.groups[i] \notin Keywords}

\* C24: extractSymbol returns the last capture group that is a valid
\* identifier and not a reserved keyword, null when there is no such group
\* or no match, and never one of const, let, var, function, class, type,
\* interface, export.
C24_ExtractsLastValidGroup ==
  extracted.called =>
    /\ ~extracted.matched => extracted.symbol = Null
    /\ extracted.matched /\ ValidGroups = {} => extracted.symbol = Null
    /\ extracted.matched /\ ValidGroups # {} =>
         /\ \E i \in ValidGroups :
              /\ extracted.symbol = extracted.groups[i]
              /\ \A j \in ValidGroups : j <= i
    /\ extracted.symbol \notin Keywords

\* extractSymbol was called on the groups "let", "A", "lets" and on
\* returned "lets", the last group, though the second is valid as well
C24_Witness ==
  /\ extracted.called
  /\ extracted.groups = <<(<<"l", "e", "t">>), (<<"A">>),
                          (<<"l", "e", "t", "s">>)>>
  /\ extracted.symbol = <<"l", "e", "t", "s">>

\* the ignore list of the method rule
MethodIgnored ==
  {"expect", "describe", "it", "beforeAll", "beforeEach", "afterEach",
   "afterAll", "constructor"}

\* C25: no occurrence produced by the method rule, and none that is
\* returned with the type method, has a symbol that is in the ignore list
\* of the rule.
C25_MethodRuleIgnoresListed ==
  /\ \A i \in 1..Len(find.results) :
       find.results[i].type = "method" =>
         find.results[i].symbol \notin MethodIgnored
  /\ \A i \in 1..Len(find.returned) :
       find.returned[i].type = "method" =>
         find.returned[i].symbol \notin MethodIgnored

\* a scan for methods has returned an occurrence after a line whose symbol
\* is the hook name "it" was dropped
C25_Witness ==
  /\ find.pc = "returned"
  /\ find.symbolType = "method"
  /\ Len(find.returned) = 1
  /\ \E k \in 1..Len(find.trace) : find.trace[k].what = "ignored"
  /\ \E k \in 1..Len(find.trace) : find.trace[k].what = "pushed"

(***************************************************************************)
(* Properties under a corrupt or failing store (CorruptSpec, FaultSpec)    *)
(***************************************************************************)
\* C26: over a stored recency map of unexpected shape (null, a non-object,
\* entries without lastAccessed or accessCount) load, recordAccess and
\* getScore do not throw, the map counts as empty and a malformed entry as
\* absent: getScore reports the zero score for it.
C26_CorruptStoreReadAsEmpty ==
  /\ thrown = "none"
  /\ lastScore # NoScore => lastScore.score # NotANumber

\* C27: a store call that rejects during recordAccess raises no exception
\* in the accept handler and does not keep the accepted item from being
\* opened.
C27_StoreFailureDoesNotStopOpen ==
  /\ thrown \notin {"recordAccess", "onDidAccept"}
  /\ \A s \in Sessions : session[s].accept # "threw"

(***************************************************************************)
(* Properties of the search session (Spec)                                 *)
(***************************************************************************)
\* C1: a background re-extraction that completes after its session was
\* hidden does not change the items, the busy flag or the fuzzy index of
\* that session.
C1_LateResultDiscarded ==
  [][\A s \in Sessions :
       session[s].pc = "hidden" /\ session'[s].pc = "hidden" =>
         /\ session'[s].items = session[s].items
         /\ session'[s].busy = session[s].busy
         /\ session'[s].fzf = session[s].fzf]_vars

\* C2: when the re-extraction completes in an open session whose filter is
\* non-empty, the displayed items are not replaced by the fresh list.
C2_NoSwapOverFilteredView ==
  [][\A s \in Sessions, symbols \in Scans \ {<<>>} :
       /\ session[s].pc = "open"
       /\ session[s].value # ""
       /\ backgroundSearch(s, symbols)
       => session'[s].items = session[s].items]_vars

SameSymbol(item, symbol) ==
  item.label = symbol.symbol /\ item.file = symbol.file
    /\ item.line = symbol.line

SameItem(a, b) == a.label = b.label /\ a.file = b.file /\ a.line = b.line

\* a before b: score descending, then name, path and line ascending
InOrder(a, b) ==
  \/ a.score.num * b.score.den > b.score.num * a.score.den
  \/ /\ a.score.num * b.score.den = b.score.num * a.score.den
     /\ \/ LabelRank(a.label) < LabelRank(b.label)
        \/ /\ a.label = b.label
           /\ \/ FileRank(a.file) < FileRank(b.file)
              \/ a.file = b.file /\ a.line <= b.line

Ordered(list) ==
  \A i \in 1..Len(list), j \in 1..Len(list) :
    i < j => InOrder(list[i], list[j])

\* C3: every session that reaches a chosen kind starts exactly one
\* background re-extraction, cache entry or not, and when it completes the
\* cache entry of its key is replaced as a whole by the freshly scored,
\* sorted list of the scan.
C3_RefreshReplacesCacheEntry ==
  [][\A s \in Sessions :
       /\ \A kind \in Kinds :
            searchSymbols(s, kind) =>
              session[s].bg = "none" /\ session'[s].bg = "running"
       /\ session[s].bg # "running" /\ session'[s].bg = "running" =>
            \E kind \in Kinds : searchSymbols(s, kind)
       /\ \A symbols \in Scans :
            backgroundSearch(s, symbols) =>
              LET entry == symbolCache'[session[s].picked] IN
              /\ entry.present
              /\ Len(entry.list) = Len(symbols)
              /\ \A i \in 1..Len(symbols) : \E j \in 1..Len(entry.list) :
                   /\ SameSymbol(entry.list[j], symbols[i])
                   /\ entry.list[j].score =
                        Rat(GetScore(entries', symbols[i].file,
                                     symbols[i].symbol, now).score, 10)
              /\ Ordered(entry.list)]_vars

\* a session that was served a cached list has finished its re-extraction
\* with an empty scan, and the cache entry is the empty list
C3_Witness ==
  \E s \in Sessions :
    /\ session[s].bg = "done"
    /\ session[s].itemsForSearch # <<>>
    /\ symbolCache[session[s].picked].present
    /\ symbolCache[session[s].picked].list = <<>>

\* C4: a session that starts over an existing cache entry is served the
\* cached list before its re-extraction finishes, busy, every item carrying
\* the recency score the tracker gives at that time.
C4_CachedListServedWithCurrentScores ==
  [][\A s \in Sessions, kind \in Kinds :
       searchSymbols(s, kind) /\ symbolCache[kind].present =>
         LET cached == symbolCache[kind].list
             served == session'[s].itemsForSearch
         IN /\ Len(served) = Len(cached)
            /\ \A i \in 1..Len(cached) : \E j \in 1..Len(served) :
                 SameItem(served[j], cached[i])
            /\ \A j \in 1..Len(served) :
                 served[j].score =
                   Rat(GetScore(entries', served[j].file, served[j].label,
                                now).score, 10)
            /\ served # <<>> =>
                 session'[s].items = Take(served, DISPLAY_LIMIT)
            /\ session'[s].busy
            /\ session'[s].bg = "running"]_vars

\* a served item carries a score other than the one its cache entry stores
C4_Witness ==
  \E s \in Sessions :
    /\ session[s].bg = "running"
    /\ session[s].busy
    /\ \E i \in 1..Len(session[s].items) :
       \E j \in 1..Len(symbolCache[session[s].picked].list) :
         /\ SameItem(session[s].items[i],
                     symbolCache[session[s].picked].list[j])
         /\ session[s].items[i].score
              # symbolCache[session[s].picked].list[j].score

\* C5: when the filter of an open session becomes empty, the displayed list
\* is the current unfiltered list, in recency order, every item carrying its
\* recency score.
C5_EmptyFilterShowsUnfilteredList ==
  [][\A s \in Sessions :
       onDidChangeValue(s, "") =>
         session'[s].items = session[s].itemsForSearch]_vars

\* the fuzzy scores of the items of list that match query
MatchScores(list, query) ==
  {fzfScore[list[i].label][query] : i \in 1..Len(list)} \ {0}

\* C6: on a keystroke with a non-empty filter the displayed items are the
\* matching items, each with the combined score
\* 0.6 * (fuzzy / max fuzzy * 100) + 0.4 * recency, ordered by combined
\* score descending, then name, path and line.
C6_CombinedScoreRanking ==
  [][\A s \in Sessions, value \in Queries \ {""} :
       onDidChangeValue(s, value) =>
         LET corpus == session[s].fzf
             shown == session'[s].items
             matching == {i \in 1..Len(corpus) :
                            fzfScore[corpus[i].label][value] > 0}
         IN /\ Len(shown) = Cardinality(matching)
            /\ \A i \in matching : \E j \in 1..Len(shown) :
                 LET fuzzy == fzfScore[corpus[i].label][value]
                     maxFuzzy == CHOOSE m \in MatchScores(corpus, value) :
                                   \A x \in MatchScores(corpus, value) : x <= m
                     recency == corpus[i].score
                 IN /\ SameItem(shown[j], corpus[i])
                    /\ recency.den = 10
                    \* score = 60 * fuzzy / maxFuzzy + 4 * recency.num / 100
                    /\ shown[j].score.den > 0
                    /\ shown[j].score.num * 100 * maxFuzzy =
                         shown[j].score.den
                           * (6000 * fuzzy + 4 * recency.num * maxFuzzy)
            /\ Ordered(shown)]_vars

\* the example: fuzzy 100 with recency 0 scores 60 and ranks below
\* fuzzy 50 with recency 100, which scores 70
C6_Witness ==
  \E s \in Sessions :
    /\ session[s].pc = "open"
    /\ session[s].value = "q"
    /\ fzfScore["A"]["q"] = 2 /\ fzfScore["B"]["q"] = 1
    /\ Len(session[s].items) >= 2
    /\ session[s].items[1].label = "B"
    /\ session[s].items[1].score.num = 70 * session[s].items[1].score.den
    /\ session[s].items[2].label = "A"
    /\ session[s].items[2].score.num = 60 * session[s].items[2].score.den
    /\ \E i \in 1..Len(session[s].fzf) :
         session[s].fzf[i].label = "B" /\ session[s].fzf[i].score = Rat(1000, 10)
    /\ \E i \in 1..Len(session[s].fzf) :
         session[s].fzf[i].label = "A" /\ session[s].fzf[i].score = Rat(0, 10)

\* C7: when the host is asked to open the file of an accepted symbol item,
\* recordAccess for its (file, symbol name) has completed: the entry is in
\* the in-memory map and in the persisted map.
C7_RecordedBeforeOpen ==
  \A s \in Sessions :
    session[s].accept = "opened" /\ session[s].selected.file # <<>> =>
      LET key == RecencyKey(session[s].selected.file,
                            session[s].selected.label)
      IN /\ loaded
         /\ HasKey(entries, key)
         /\ entries[IndexOf(entries, key)].accessCount >= 1
         /\ entries[IndexOf(entries, key)].lastAccessed <= now
         /\ HasKey(globalState, key)
         /\ globalState[IndexOf(globalState, key)]
              = entries[IndexOf(entries, key)]

\* an accepted symbol item has been opened
C7_Witness ==
  \E s \in Sessions :
    /\ session[s].accept = "opened"
    /\ session[s].selected.file # <<>>
    /\ HasKey(globalState, RecencyKey(session[s].selected.file,
                                      session[s].selected.label))

\* C28: when the background re-extraction returns no occurrence, the
\* session shows the single item "No symbols found.", is no longer busy, the
\* cache entry of its key is the empty list, and no error is raised.
C28_EmptyScanShowsNoSymbols ==
  [][\A s \in Sessions :
       backgroundSearch(s, <<>>) =>
         /\ Len(session'[s].items) = 1
         /\ session'[s].items[1].label = "No symbols found."
         /\ session'[s].items[1].file = <<>>
         /\ ~session'[s].busy
         /\ symbolCache'[session[s].picked] = [present |-> TRUE, list |-> <<>>]
         /\ thrown' = "none"
         /\ session'[s].pc = session[s].pc
         /\ session'[s].accept = session[s].accept]_vars

\* an open session over a cached list shows "No symbols found." after its
\* re-extraction came back empty
C28_Witness ==
  \E s \in Sessions :
    /\ session[s].pc = "open"
    /\ session[s].bg = "done"
    /\ ~session[s].busy
    /\ Len(session[s].itemsForSearch) = 3
    /\ Len(session[s].items) = 1
    /\ session[s].items[1].label = "No symbols found."
    /\ symbolCache[session[s].picked] = [present |-> TRUE, list |-> <<>>]

\* C30: every list of symbol items the result widget holds (the stale list
\* shown first, the fresh list after the refresh, the filtered list after a
\* keystroke) is ordered by score descending, then by symbol name, file
\* path and line ascending.
C30_AssignedListsOrdered ==
  \A s \in Sessions : Ordered(session[s].items)

\* the widget holds the fresh list of a scan that found A of the second
\* file, B and A of the first file, three items of one score: A of the first
\* file, A of the second file and B
C30_Witness ==
  \E s \in Sessions :
    /\ session[s].pc = "open"
    /\ session[s].value = ""
    /\ session[s].bg = "done"
    /\ Len(session[s].items) = 3
    /\ SameSymbol(session[s].items[1], SymA)
    /\ SameSymbol(session[s].items[2], SymA2)
    /\ SameSymbol(session[s].items[3], SymB)
    /\ session[s].items[1].score = session[s].items[3].score

(***************************************************************************)
(* Properties of the preview manager (PreviewSpec)                         *)
(***************************************************************************)
\* C29: once a session that was hidden without an accepted item has come to
\* rest, the editor that was active when it started is shown again, with
\* the selection it had then.
C29_HiddenSessionRestoresEditor ==
  /\ preview.pc = "hidden"
  /\ ~preview.accepted
  /\ preview.dispose = "done"
  /\ preview.showing = "none"
  /\ preview.originalEditor = "editor"
  => /\ preview.active = "original"
     /\ preview.selection = preview.start

(***************************************************************************)
(* Keystrokes after the background search (Spec)                           *)
(***************************************************************************)
\* C31: once the background search of an open session has completed, a
\* keystroke filters the fresh list, the one that search stored under the
\* session's cache key, whether that list is empty or not.
C31_KeystrokeFiltersFreshList ==
  [][\A s \in Sessions : \A value \in Queries :
       (session[s].bg = "done" /\ onDidChangeValue(s, value))
         => session'[s].items =
              FilteredItems(symbolCache[session[s].picked].list, value,
                            fzfScore)]_vars

(***************************************************************************)
(* recordAccess calls in flight together on one tracker                    *)
(***************************************************************************)
\* calls holds the recordAccess calls made, in the order they were made:
\* pc is "loaded" while the call waits at `await this.load()`, "saving"
\* while it waits at `await this.save()` and "done" when it has returned;
\* written is the object save() passed to globalState.update, and inFlight
\* the number of calls that had not returned when this one was made
InFlight == {i \in 1..Len(calls) : calls[i].pc # "done"}

\* the call whose continuation runs next: promise continuations run in the
\* order in which they were queued
NextLoaded ==
  CHOOSE i \in 1..Len(calls) :
    /\ calls[i].pc = "loaded"
    /\ \A j \in 1..Len(calls) : calls[j].pc = "loaded" => i <= j

\* the update the host completes first is the latest one issued
NewestSaving ==
  CHOOSE i \in 1..Len(calls) :
    /\ calls[i].pc = "saving"
    /\ \A j \in 1..Len(calls) : calls[j].pc = "saving" => j <= i

\* the update the host completes next: updates of one key complete in the
\* order in which they were issued
OldestSaving ==
  CHOOSE i \in 1..Len(calls) :
    /\ calls[i].pc = "saving"
    /\ \A j \in 1..Len(calls) : calls[j].pc = "saving" => i <= j

\* recordAccess up to `await this.load()`; load() has no await of its own
\* and has loaded the map when it returns its promise
recordAccessCall(filePath, symbolName) ==
  /\ runs < MaxCalls
  /\ ~LoadThrows
  /\ runs' = runs + 1
  /\ entries' = LoadedEntries
  /\ loaded' = TRUE
  /\ reads' = ReadStore
  /\ calls' = Append(calls, [filePath |-> filePath, symbolName |-> symbolName,
                             pc |-> "loaded", written |-> <<>>,
                             inFlight |-> Cardinality(InFlight)])
  /\ UNCHANGED <<now, globalState, symbolCache, session, fzfScore, lastScore,
                 instance, find, extracted, store, thrown, preview, config,
                 lastCommand>>

\* recordAccess from the entry lookup to `await this.save()`: the entry is
\* read, updated and put back, the map is pruned, and save() passes a copy
\* of the map to globalState.update
recordAccessResume ==
  /\ \E i \in 1..Len(calls) : calls[i].pc = "loaded"
  /\ LET i == NextLoaded IN
     /\ entries' = RecordAccessEntries(entries, calls[i].filePath,
                                       calls[i].symbolName, now)
     /\ calls' = [calls EXCEPT ![i].pc = "saving", ![i].written = entries']
  /\ UNCHANGED <<now, globalState, loaded, symbolCache, session, fzfScore,
                 runs, lastScore, instance, find, extracted, store, thrown,
                 preview, reads, config, lastCommand>>

\* globalState.update resolves: the store holds what was passed to it, and
\* the call returns
updateResolves ==
  /\ \E i \in 1..Len(calls) : calls[i].pc = "saving"
  /\ LET i == OldestSaving IN
     /\ globalState' = calls[i].written
     /\ calls' = [calls EXCEPT ![i].pc = "done"]
  /\ UNCHANGED <<now, entries, loaded, symbolCache, session, fzfScore, runs,
                 lastScore, instance, find, extracted, store, thrown,
                 preview, reads, config, lastCommand>>

\* the map the tracker of the concurrent calls starts from
ConcurrentStore == <<Entry(File1, "A", 1, 5)>>

ConcurrentInit == TrackerInit /\ globalState = ConcurrentStore

ConcurrentNext ==
  \/ \E f \in Files, l \in Labels : recordAccessCall(f, l)
  \/ recordAccessResume
  \/ updateResolves
  \/ Tick

ConcurrentSpec == ConcurrentInit /\ [][ConcurrentNext]_vars

\* the access count the map m holds for the pair k, 0 without an entry
CountIn(m, k) ==
  IF HasKey(m, RecencyKey(k[1], k[2]))
  THEN m[IndexOf(m, RecencyKey(k[1], k[2]))].accessCount
  ELSE 0

\* the calls made for the pair k that have got as far as pc
CallsFor(k, pcs) ==
  Cardinality({i \in 1..Len(calls) :
                 /\ calls[i].filePath = k[1]
                 /\ calls[i].symbolName = k[2]
                 /\ calls[i].pc \in pcs})

C33_StoreReadAtMostOnce == reads <= 1

\* a tracker that has completed two recordAccess calls and answered a score
\* query has read the store once
C33_Witness ==
  /\ runs >= 2
  /\ loaded
  /\ lastScore # NoScore
  /\ lastScore.accessCount >= 2
  /\ reads = 1

(***************************************************************************)
(* Order of the list findSymbols returns (FindSpec)                        *)
(***************************************************************************)
\* the first raw occurrence with the key of x
FirstSeen(x) ==
  CHOOSE i \in SameKeyAs(x) : \A h \in SameKeyAs(x) : i <= h

\* C34: findSymbols returns the occurrences in the order in which their keys
\* were first seen by the scan; a key keeps the position of its first
\* occurrence when a later occurrence of higher precedence replaces it.
C34_ReturnedInFirstSeenOrder ==
  find.pc = "returned" =>
    \A i \in 1..Len(find.returned), j \in 1..Len(find.returned) :
      i < j => FirstSeen(find.returned[i]) < FirstSeen(find.returned[j])

\* the occurrence returned first replaced an earlier one of its key, and
\* the key returned after it was first seen between the two
C34_Witness ==
  /\ find.pc = "returned"
  /\ Len(find.returned) = 2
  /\ find.deduped[1].from > FirstSeen(find.returned[2])
  /\ FirstSeen(find.returned[2]) > FirstSeen(find.returned[1])
  /\ find.returned[1] = find.results[find.deduped[1].from]

(***************************************************************************)
(* Specification of one session with its background scan, under fairness   *)
(***************************************************************************)
\* backgroundSearch calls findSymbols for the kind picked
backgroundFind(s) ==
  /\ session[s].bg = "running"
  /\ findSymbols(session[s].picked)

\* a step of the scan that findSymbols is in
ScanStep ==
  \/ \E out \in Outcomes(MaxLiveLines) : runRipgrep(out)
  \/ parseLine
  \/ nextPattern
  \/ dedupItem
  \/ returnDeduped

\* backgroundSearch goes on with what findSymbols returned
backgroundReturn(s) ==
  /\ find.pc = "returned"
  /\ backgroundSearch(s, find.returned)

LiveNext ==
  \/ \E s \in Sessions, kind \in Kinds : searchSymbols(s, kind)
  \/ \E s \in Sessions : backgroundFind(s)
  \/ ScanStep
  \/ \E s \in Sessions : backgroundReturn(s)
  \/ \E s \in Sessions : onDidHide(s)

\* the steps of backgroundSearch
Background ==
  \/ \E s \in Sessions : backgroundFind(s)
  \/ ScanStep
  \/ \E s \in Sessions : backgroundReturn(s)

LiveInit == Init /\ globalState = <<>> /\ fzfScore \in FzfScores

\* the host runs the continuation of an async function whose await has
\* resolved, and every invocation of the search tool ends
LiveSpec == LiveInit /\ [][LiveNext]_vars /\ WF_vars(Background)

\* C35: in every session that has a chosen kind the background search ends
\* and the busy indicator is cleared, whether symbols were found, none were
\* found, or an invocation of a pattern failed.
C35_BusyEventuallyCleared ==
  \A s \in Sessions :
    (session[s].bg = "running" /\ session[s].busy)
      ~> (session[s].bg = "done" /\ ~session[s].busy)

\* the background search of a session ended with the busy indicator off
\* after an invocation had failed and no symbol was found
C35_Witness ==
  \E s \in Sessions :
    /\ session[s].bg = "done"
    /\ ~session[s].busy
    /\ find.pc = "returned"
    /\ find.failed # {}
    /\ find.returned = <<>>

(***************************************************************************)
(* Specification of sessions over two cache keys                           *)
(***************************************************************************)
\* what no command has touched yet: a new tracker, no session, nothing
\* thrown, no call in flight
AtRest ==
  /\ entries = <<>>
  /\ loaded = FALSE
  /\ session = [s \in Sessions |-> IdleSession]
  /\ runs = 0
  /\ lastScore = NoScore
  /\ instance = 1
  /\ find = IdleFind
  /\ extracted = NoExtract
  /\ store = HealthyStore
  /\ thrown = "none"
  /\ preview = IdlePreview
  /\ reads = 0
  /\ calls = <<>>

\* the kinds picked in these sessions; with one root each is a cache key
CacheKinds == {"class", "function"}

CacheInit ==
  /\ AtRest
  /\ now = 2
  /\ globalState = <<>>
  /\ symbolCache = [k \in CacheKinds |-> NoEntry]
  /\ fzfScore \in FzfScores
  /\ config = IdleConfig
  /\ lastCommand = Untracked

CacheNext ==
  \/ \E s \in Sessions, kind \in CacheKinds : searchSymbols(s, kind)
  \/ \E s \in Sessions, symbols \in Scans : backgroundSearch(s, symbols)
  \/ \E s \in Sessions, value \in Queries : onDidChangeValue(s, value)
  \/ \E s \in Sessions : onDidHide(s)
  \/ \E s \in Sessions : onDidAccept(s)
  \/ \E s \in Sessions, i \in 0..DISPLAY_LIMIT :
        i <= Len(session[s].items) /\ acceptSelected(s, i)
  \/ \E s \in Sessions : acceptOpen(s)
  \/ \E s \in Sessions : rerun(s)

CacheSpec == CacheInit /\ [][CacheNext]_vars

\* C36: the cache entry of a key, the scores of its items included, changes
\* only when a background search for that key completes; the completion
\* leaves the entries of the other keys as they are, and serving a cached
\* list, a keystroke or an accepted item changes no entry.
C36_CacheChangedOnlyByItsRefresh ==
  [][\A k \in CacheKinds :
       symbolCache'[k] # symbolCache[k] =>
         \E s \in Sessions :
           /\ session[s].picked = k
           /\ session[s].bg = "running"
           /\ session'[s].bg = "done"]_vars

\* with symbols cached under the first key, a session completed the
\* refresh of the second key, handled a keystroke and accepted an item
C36_Witness ==
  \E s \in Sessions :
    /\ symbolCache["class"].list # <<>>
    /\ symbolCache["function"].list # <<>>
    /\ session[s].picked = "function"
    /\ session[s].bg = "done"
    /\ session[s].value = "q"
    /\ session[s].accept = "opened"
    /\ entries # <<>>

(***************************************************************************)
(* Specification of a tracker over files and symbols whose keys meet       *)
(***************************************************************************)
\* a file whose name ends in "#A", next to the file File1
File3 == <<"f1", "#", "A">>

\* the (filePath, symbolName) pairs recorded and asked for; "" is no symbol
Pairs == {<<f, l>> : f \in {File1, File3}, l \in {"A", ""}}

PairInit ==
  /\ AtRest
  /\ now = 2
  /\ globalState = <<>>
  /\ symbolCache = [k \in Kinds |-> NoEntry]
  /\ fzfScore = [l \in Labels |-> [q \in Queries \ {""} |-> 0]]
  /\ config = IdleConfig
  /\ lastCommand = Untracked

PairNext ==
  \/ \E p \in Pairs : recordAccess(p[1], p[2])
  \/ \E p \in Pairs : getScore(p[1], p[2])
  \/ Tick

PairSpec == PairInit /\ [][PairNext]_vars

\* what getScore reports of the pair q over the map m
Reported(m, q) ==
  LET score == GetScore(m, q[1], q[2], now)
  IN <<score.lastAccessed, score.accessCount>>

\* C37: recordAccess(filePath, symbolName) changes the entry of that pair
\* only: the lastAccessed and accessCount getScore reports for any other
\* pair (another file, another symbol, the same file without a symbol) are
\* what they were before the call; no entry is evicted from these maps.
C37_RecordAccessTouchesOnePair ==
  [][\A p \in Pairs : \A q \in Pairs \ {p} :
       recordAccess(p[1], p[2])
         => Reported(entries', q) = Reported(LoadedEntries, q)]_vars

(***************************************************************************)
(* Specification of a full tracker under a clock that may be set back      *)
(***************************************************************************)
\* a persisted map at the cap, written at the time the tracker starts at
SkewInit ==
  /\ AtRest
  /\ now = 2
  /\ globalState = <<Filler(1, 2, MAX_ENTRIES)>>
  /\ symbolCache = [k \in Kinds |-> NoEntry]
  /\ fzfScore = [l \in Labels |-> [q \in Queries \ {""} |-> 0]]
  /\ config = IdleConfig
  /\ lastCommand = Untracked

SkewNext ==
  \/ \E filePath \in Files, symbolName \in Labels :
        recordAccess(filePath, symbolName)
  \/ \E filePath \in Files, symbolName \in Labels :
        getScore(filePath, symbolName)
  \/ clockSetBack
  \/ Tick

SkewSpec == SkewInit /\ [][SkewNext]_vars

\* C38: the entry a recordAccess call has created or updated is not among
\* the entries the same call evicts: when the call has completed it is in
\* the in-memory map and in the persisted map, whatever the map held.
C38_RecordedEntrySurvives ==
  [][\A k \in SymbolKeys :
       recordAccess(k[1], k[2])
         => /\ HasKey(entries', RecencyKey(k[1], k[2]))
            /\ HasKey(globalState', RecencyKey(k[1], k[2]))]_vars

(***************************************************************************)
(* PreviewManager and the setting enablePreviewFromQuickOpen               *)
(***************************************************************************)
\* init() up to `await config.update(..., true)`: the setting is read into
\* originalPreviewSetting
InitCalled(manager) ==
  IF manager.initialized THEN manager
  ELSE [manager EXCEPT !.originalPreviewSetting = config.setting,
                       !.init = "updating"]

\* dispose() up to its first await; it returns at once when the manager is
\* not initialized
DisposeCalled(manager) ==
  IF manager.initialized THEN [manager EXCEPT !.dispose = "restoring"]
  ELSE manager

\* the command creates its PreviewManager and awaits init()
managerInit(m) ==
  /\ config.managers[m].session = "none"
  /\ config' = [config EXCEPT
       !.managers[m] = [InitCalled(@) EXCEPT !.session = "starting"]]
  /\ UNCHANGED <<now, globalState, entries, loaded, symbolCache, session,
                 fzfScore, runs, lastScore, instance, find, extracted, store,
                 thrown, preview, reads, calls, lastCommand>>

\* the update of init() resolves: the setting is true and the manager
\* initialized
initResolves(m) ==
  /\ config.managers[m].init = "updating"
  /\ config' = [config EXCEPT
       !.setting = TRUE,
       !.managers[m].init = "none",
       !.managers[m].initialized = TRUE,
       !.managers[m].session = IF @ = "starting" THEN "open" ELSE @]
  /\ UNCHANGED <<now, globalState, entries, loaded, symbolCache, session,
                 fzfScore, runs, lastScore, instance, find, extracted, store,
                 thrown, preview, reads, calls, lastCommand>>

\* onDidChangeActive: showFile calls init() when the manager is not
\* initialized
managerShowFile(m) ==
  /\ config.managers[m].session = "open"
  /\ ~config.managers[m].initialized
  /\ config.managers[m].init = "none"
  /\ config' = [config EXCEPT !.managers[m] = InitCalled(@)]
  /\ UNCHANGED <<now, globalState, entries, loaded, symbolCache, session,
                 fzfScore, runs, lastScore, instance, find, extracted, store,
                 thrown, preview, reads, calls, lastCommand>>

\* onDidAccept (hidden FALSE) or onDidHide (hidden TRUE) calls dispose()
managerDispose(m, hidden) ==
  /\ config.managers[m].session = "open"
  /\ hidden \/ config.managers[m].dispose = "none"
  /\ config' = [config EXCEPT
       !.managers[m] =
         [DisposeCalled(@) EXCEPT
            !.session = IF hidden THEN "ended" ELSE @]]
  /\ UNCHANGED <<now, globalState, entries, loaded, symbolCache, session,
                 fzfScore, runs, lastScore, instance, find, extracted, store,
                 thrown, preview, reads, calls, lastCommand>>

\* the update of dispose() resolves and dispose() runs to its end: the
\* setting is originalPreviewSetting and the manager no longer initialized
disposeResolves(m) ==
  /\ config.managers[m].dispose = "restoring"
  /\ config' = [config EXCEPT
       !.setting = config.managers[m].originalPreviewSetting,
       !.managers[m].dispose = "none",
       !.managers[m].initialized = FALSE]
  /\ UNCHANGED <<now, globalState, entries, loaded, symbolCache, session,
                 fzfScore, runs, lastScore, instance, find, extracted, store,
                 thrown, preview, reads, calls, lastCommand>>

SettingInit ==
  /\ AtRest
  /\ now = 2
  /\ globalState = <<>>
  /\ symbolCache = [k \in Kinds |-> NoEntry]
  /\ fzfScore = [l \in Labels |-> [q \in Queries \ {""} |-> 0]]
  /\ config \in {[IdleConfig EXCEPT !.setting = b, !.before = b] :
                   b \in BOOLEAN}
  /\ lastCommand = Untracked

SettingNext ==
  \/ \E m \in Managers : managerInit(m)
  \/ \E m \in Managers : initResolves(m)
  \/ \E m \in Managers : managerShowFile(m)
  \/ \E m \in Managers, hidden \in BOOLEAN : managerDispose(m, hidden)
  \/ \E m \in Managers : disposeResolves(m)

SettingSpec == SettingInit /\ [][SettingNext]_vars

\* every session that was started has ended and no call of init() or
\* dispose() is in flight
SessionsEnded ==
  /\ \E m \in Managers : config.managers[m].session = "ended"
  /\ \A m \in Managers :
       /\ config.managers[m].session \in {"none", "ended"}
       /\ config.managers[m].init = "none"
       /\ config.managers[m].dispose = "none"

\* C39: however the init, showFile and dispose calls of one or of several
\* sessions interleave, once all sessions have ended the setting
\* enablePreviewFromQuickOpen has the value it had before the first session.
C39_SettingRestored ==
  SessionsEnded => config.setting = config.before

(***************************************************************************)
(* omn.resumeLastCommand over sessions registered with a LastCommandTracker *)
(***************************************************************************)
\* the n-th stored argument, "" (not passed) when there are fewer
Arg(args, n) == IF Len(args) >= n THEN args[n] ELSE ""

\* the resume command: without a stored command a message is shown and
\* nothing is executed; otherwise executeCommand(commandId, ...args) runs
\* the stored command, here omn.searchSymbols, whose kind is its first
\* argument or, without one, the kind picked from the menu
resumeLastCommand(s, kind) ==
  /\ lastCommand.tracker
  /\ session[s].pc = "idle"
  /\ runs < MaxRuns
  /\ IF lastCommand.stored = NoCommand
     THEN /\ runs' = runs + 1
          /\ UNCHANGED <<now, globalState, entries, loaded, symbolCache,
                         session, fzfScore, lastScore, instance, find,
                         extracted, store, thrown, preview, reads, calls,
                         config, lastCommand>>
     ELSE LET args == lastCommand.stored.args IN
          /\ startSession(s, Arg(args, 1), Arg(args, 2), kind)
          /\ lastCommand' =
               [SetLastCommand("omn.searchSymbols",
                               StartArgs(Arg(args, 1), Arg(args, 2)))
                  EXCEPT !.executed = lastCommand.stored]

ResumeInit ==
  /\ AtRest
  /\ now = 2
  /\ globalState = <<>>
  /\ symbolCache = [k \in Kinds |-> NoEntry]
  /\ fzfScore \in FzfScores
  /\ config = IdleConfig
  /\ lastCommand = [Untracked EXCEPT !.tracker = TRUE]

ResumeNext ==
  \/ \E s \in Sessions, kind \in Kinds : searchSymbols(s, kind)
  \/ \E s \in Sessions, kind \in Kinds, searchValue \in Queries :
        searchSymbolsWith(s, kind, searchValue, kind)
  \/ \E s \in Sessions : cancelPick(s)
  \/ \E s \in Sessions, symbols \in Scans : backgroundSearch(s, symbols)
  \/ \E s \in Sessions, value \in Queries : onDidChangeValue(s, value)
  \/ \E s \in Sessions : onDidHide(s)
  \/ \E s \in Sessions : rerun(s)
  \/ \E s \in Sessions, kind \in Kinds : resumeLastCommand(s, kind)

ResumeSpec == ResumeInit /\ [][ResumeNext]_vars

\* resume executes the stored command with the stored arguments, nothing
\* without a stored command, and is not stored itself
ResumeExecutesStored ==
  [][\A s \in Sessions, kind \in Kinds :
       resumeLastCommand(s, kind) =>
         IF lastCommand.stored = NoCommand
         THEN session' = session /\ lastCommand' = lastCommand
         ELSE /\ lastCommand'.executed = lastCommand.stored
              /\ session'[s].value = Arg(lastCommand.stored.args, 2)
              /\ lastCommand'.stored.commandId = "omn.searchSymbols"]_vars

\* what is stored once a session with a chosen kind is over
SessionStored ==
  \A s \in Sessions :
    session[s].pc = "hidden" =>
      /\ lastCommand.stored.commandId = "omn.searchSymbols"
      /\ Arg(lastCommand.stored.args, 1) = session[s].picked
      /\ Arg(lastCommand.stored.args, 2) = session[s].value

\* C40: resumeLastCommand executes the stored command with exactly its
\* stored arguments and nothing when none is stored, without becoming the
\* stored command; and after a symbol search session the stored command is
\* searchSymbols with the chosen kind and the filter text.
C40_ResumeRepeatsLastSession == ResumeExecutesStored /\ []SessionStored
====
